---- MODULE Spec2Model ----
(***************************************************************************)
(* Model of the pooled sandbox provider (DaytonaSandboxProvider):          *)
(* acquire / get / release / shutdown and the idle checker, at the         *)
(* granularity of the provider's lock sections and backend calls.          *)
(***************************************************************************)
EXTENDS Integers, FiniteSets, Sequences, TLC

\* ---------------------------------------------------------------- bounds
MaxIds == 2            \* sandboxes the backend hands out in one run
MaxTime == 2           \* the clock stops advancing at this reading
TickStep == 2          \* clock advance between two readings
MaxQuota == 1          \* largest configured max_sandboxes_per_user
MaxPorts == 2          \* size of the scheduler's NodePort range
MaxExit == 2           \* largest exit code of a remote command
MaxText == 8           \* longest file (in bytes) the remote file system holds
MaxSignals == 2        \* signals delivered to the process in one run
MaxBoots == 2          \* bootstraps of the provisioner in one run
MaxRetries == 2        \* largest configured max_retries
MaxAdds == 3           \* add calls made on the memory queue in one run
MaxTimers == 4         \* threading.Timer objects the memory queue starts in one run

\* ---------------------------------------------------------------- values
None == "None"
Threads == {"t1", "t2"}
Users == {"u1", "u2"}
\* (thread_id, user_id) argument pairs of acquire: two threads of one user,
\* one thread shared by two users, and a call with neither argument
AcquireArgs == {<<"t1", "u1">>, <<"t2", "u1">>, <<"t2", "u2">>, <<None, None>>}
\* the pairs used when the idle checker and shutdown run too
FullAcquireArgs == {<<"t1", "u1">>, <<"t2", "u2">>}

NoId == -1                       \* Python None where a sandbox id is expected
GarbageId == 0                   \* an id string the backend never assigned

Sweeper == 0                     \* the idle-checker thread
Procs == {1, 2}                  \* caller threads
Agents == Procs \cup {Sweeper}

\* Python truthiness of an optional string argument
Truthy(x) == x \notin {None, ""}

\* dict helpers (dicts are functions whose DOMAIN is the key set)
EmptyMap == [x \in {} |-> 0]
Put(f, k, v) == [x \in DOMAIN f \cup {k} |-> IF x = k THEN v ELSE f[x]]
Pop(f, k) == [x \in DOMAIN f \ {k} |-> f[x]]

VARIABLES
    sandboxes,          \* _sandboxes: keys of sandbox_id -> DaytonaSandbox
    thread_sandboxes,   \* _thread_sandboxes: thread_id -> sandbox_id
    last_activity,      \* _last_activity: sandbox_id -> timestamp
    user_sandboxes,     \* _user_sandboxes: user_id -> set of sandbox ids
    shutdown_called,    \* _shutdown_called
    shutdown_next_id,   \* history: next_id when shutdown began (0: not begun)
    idle_checker_stop,  \* _idle_checker_stop (threading.Event)
    max_per_user,       \* _max_per_user
    idle_timeout,       \* _config["idle_timeout"]
    backend,            \* sandboxes alive at the remote API
    next_id,            \* next id the remote API assigns
    now,                \* time.time()
    pc,                 \* per thread: position in the code
    op,                 \* per thread: the public method it is executing
    a_thread,           \* per thread: acquire's thread_id argument
    a_user,             \* per thread: acquire's user_id argument
    sid,                \* per thread: local sandbox id (created / being released)
    todo,               \* per thread: ids still to release (shutdown, idle sweep)
    ret                 \* per thread: result of the call that just returned

pool == <<sandboxes, thread_sandboxes, last_activity, user_sandboxes>>
remote == <<backend, next_id>>
config == <<max_per_user, idle_timeout>>
locals == <<a_thread, a_user, sid, todo>>
provider == <<sandboxes, thread_sandboxes, last_activity, user_sandboxes,
              shutdown_called, shutdown_next_id, idle_checker_stop, max_per_user,
              idle_timeout,
              backend, next_id, now, pc, op, a_thread, a_user, sid, todo, ret>>

\* The sandbox provisioner (src/docker/provisioner/app.py) keeps no state of
\* its own: its state is the namespace's Pods and Services, plus the position
\* of the request being handled. The handlers are coroutines without an await,
\* so the event loop of one replica runs one request at a time; replicas of
\* the provisioner share the namespace and nothing else.
VARIABLES
    pods,               \* names of the Pods in the namespace
    services,           \* Service name -> [sandbox_id label, node_port]
    api_faulty,         \* scheduler calls may fail for reasons other than 409 / 404
    h_req,              \* per replica: parity of the number of requests accepted
    h_pc,               \* per replica: position of the request being handled
    h_op,               \* per replica: endpoint of the current / last request
    h_id,               \* per replica: its sandbox_id
    h_polls,            \* per replica: create: _get_node_port calls of the poll loop
    h_made_pod,         \* per replica: create: create_namespaced_pod returned normally
    h_errors,           \* per replica: destroy: the errors list
    h_ret               \* per replica: response of the last request

Replicas == {1, 2}               \* provisioner processes

k8s == <<pods, services>>
handler == <<h_req, h_pc, h_op, h_id, h_polls, h_made_pod, h_errors, h_ret>>
cluster == <<pods, services, api_faulty,
             h_req, h_pc, h_op, h_id, h_polls, h_made_pod, h_errors, h_ret>>

\* A sandbox handle (DaytonaSandbox) wraps one remote sandbox. Its methods are
\* synchronous; the state is the remote file system and the outcome of the
\* last method called.
VARIABLES
    d_files,            \* remote file system: path -> bytes (NoFile: absent)
    d_op,               \* the method called last
    d_append,           \* write_file: its append argument
    d_resp,             \* what the remote calls of that method did
    d_out               \* what the method returned or raised

handle == <<d_files, d_op, d_append, d_resp, d_out>>

\* Signal handling of the process that constructed a provider. Python runs a
\* signal handler in the main thread, on top of whatever the main thread was
\* executing; the handler calls shutdown(), which takes the provider's lock.
VARIABLES
    g_previous,         \* _original_sigterm / _original_sigint
    g_installed,        \* per signal: the handler installed now
    g_pc,               \* position of the handler's frame ("none": no frame)
    g_sig,              \* signum of that frame
    g_main,             \* main thread, below the handler's frame
    g_other,            \* another thread using the provider
    g_shutdown_called,  \* _shutdown_called
    g_cleaned,          \* shutdown's release pass has finished
    g_chained,          \* per signal: calls made to the previous handler
    g_reraised,         \* per signal: times the signal was re-raised
    g_delivered,        \* signals delivered so far
    g_alive             \* the process runs

signals == <<g_previous, g_installed, g_pc, g_sig, g_main, g_other,
             g_shutdown_called, g_cleaned, g_chained, g_reraised, g_delivered,
             g_alive>>

\* The provisioner's bootstrap (lifespan) and the manifests it and create
\* build: the namespace and its NetworkPolicy in the scheduler's store, the
\* position of the bootstrap, and the connection or the Pod manifest that
\* is evaluated at the moment.
VARIABLES
    n_cidrs,            \* INTERNAL_CIDRS after split(",")
    n_namespace,        \* the namespace exists
    n_policy,           \* the NetworkPolicy sandbox-isolation (NoPolicy: absent)
    n_pc,               \* position of the bootstrap
    n_runs,             \* bootstraps started
    n_before,           \* store when the current bootstrap started
    n_again,            \* the previous bootstrap completed
    n_conn,             \* the connection being evaluated (NoConn: none)
    n_verdict,          \* whether the installed policy permits it
    n_pod               \* the Pod manifest being submitted (NoPod: none)

bootstrap == <<n_cidrs, n_namespace, n_policy, n_pc, n_runs, n_before, n_again,
               n_conn, n_verdict, n_pod>>

\* ToolRetryMiddleware.wrap_tool_call: one tool call passing through the
\* middleware, which invokes the handler one or more times.
VARIABLES
    r_max,              \* self.max_retries
    r_tool,             \* tool_name
    r_pc,               \* position in wrap_tool_call
    r_attempt,          \* the loop variable attempt
    r_calls,            \* handler invocations made for this tool call
    r_result,           \* result: what the handler returned last
    r_ret               \* what wrap_tool_call returned

retry == <<r_max, r_tool, r_pc, r_attempt, r_calls, r_result, r_ret>>

\* The provider's mutex (self._lock, a threading.Lock), made explicit: the
\* provider's actions above are its lock sections and its remote calls, one
\* step each; here a thread takes the lock, runs one section, and leaves.
VARIABLES
    m_lock,             \* the thread holding self._lock (NoHolder: free)
    m_entry             \* pc of the holder when it took the lock

mutex == <<m_lock, m_entry>>

\* The in-process memory update queue (src/backend/src/agents/memory/queue.py)
\* with memory enabled: callers add contexts and flush, each threading.Timer
\* runs _process_queue in a thread of its own. A step is one lock section.
VARIABLES
    q_queue,            \* _queue: the pending contexts, [key, add]
    q_timer,            \* _timer: the Timer kept (0: None)
    q_status,           \* per Timer object: unused / scheduled / cancelled /
                        \*    fired (its function was called) / running / done
    q_processing,       \* _processing
    q_passes,           \* processing passes between their two lock sections
    q_flush,            \* position of the thread calling flush
    q_added,            \* history: the key of every add, in order
    q_handed            \* history: per add, times its context reached the updater

memq == <<q_queue, q_timer, q_status, q_processing, q_passes, q_flush, q_added, q_handed>>

\* the components besides the provider and the provisioner
side == <<handle, signals, bootstrap, retry, mutex, memq>>
handle_frame == <<provider, cluster, signals, bootstrap, retry, mutex, memq>>
signals_frame == <<provider, cluster, handle, bootstrap, retry, mutex, memq>>
bootstrap_frame == <<provider, cluster, handle, signals, retry, mutex, memq>>
retry_frame == <<provider, cluster, handle, signals, bootstrap, mutex, memq>>
mutex_frame == <<provider, cluster, handle, signals, bootstrap, retry, memq>>
memq_frame == <<provider, cluster, handle, signals, bootstrap, retry, mutex>>

vars == <<provider, cluster, side>>

\* results
NoRet == [kind |-> "none", id |-> NoId]
Ok(i) == [kind |-> "ok", id |-> i]
QuotaError == [kind |-> "quota_error", id |-> NoId]
CreateError == [kind |-> "create_error", id |-> NoId]

\* ---------------------------------------------------------------- config
DEFAULT_AUTO_STOP == 15
\* _load_config: idle_timeout = cfg.idle_timeout or DEFAULT_AUTO_STOP * 60
LoadIdleTimeout(raw) == IF raw = 0 THEN DEFAULT_AUTO_STOP * 60 ELSE raw

\* provisioner: responses. A response carries the HTTP status code, the
\* sandbox id, the url, the Pod phase, the error detail with the resources it
\* names, and the listing.
NODE_HOST == "host.docker.internal"
NoUrl == [scheme |-> "", host |-> "", port |-> 0]
SandboxUrl(node_port) == [scheme |-> "http", host |-> NODE_HOST, port |-> node_port]
Response(code, x, url, phase, detail, errors, items) ==
    [code |-> code, sandbox_id |-> x, url |-> url, status |-> phase,
     detail |-> detail, errors |-> errors, sandboxes |-> items, count |-> Len(items)]
NoResponse == Response(0, None, NoUrl, "", "", <<>>, <<>>)

\* provisioner: an empty namespace and no request in progress
ClusterInitWith(faulty) ==
    /\ pods = {}
    /\ services = EmptyMap
    /\ api_faulty = faulty
    /\ h_req = [r \in Replicas |-> 0]
    /\ h_pc = [r \in Replicas |-> "idle"]
    /\ h_op = [r \in Replicas |-> "none"]
    /\ h_id = [r \in Replicas |-> None]
    /\ h_polls = [r \in Replicas |-> 0]
    /\ h_made_pod = [r \in Replicas |-> FALSE]
    /\ h_errors = [r \in Replicas |-> <<>>]
    /\ h_ret = [r \in Replicas |-> NoResponse]
ClusterInit == ClusterInitWith(TRUE)

\* provider: state after __init__ for a configured idle_timeout and quota
ProviderInitWith(raws, quotas) ==
    /\ sandboxes = {}
    /\ thread_sandboxes = EmptyMap
    /\ last_activity = EmptyMap
    /\ user_sandboxes = EmptyMap
    /\ shutdown_called = FALSE
    /\ shutdown_next_id = 0
    /\ idle_checker_stop = FALSE
    /\ max_per_user \in quotas
    /\ \E raw \in raws : idle_timeout = LoadIdleTimeout(raw)
    /\ backend = {}
    /\ next_id = 1
    /\ now = 0
    /\ pc = [a \in Agents |-> IF a = Sweeper
                               THEN (IF idle_timeout > 0 THEN "sw_wait" ELSE "sw_off")
                               ELSE "idle"]
    /\ op = [a \in Agents |-> IF a = Sweeper THEN "sweep" ELSE "none"]
    /\ a_thread = [a \in Agents |-> None]
    /\ a_user = [a \in Agents |-> None]
    /\ sid = [a \in Agents |-> NoId]
    /\ todo = [a \in Agents |-> {}]
    /\ ret = [a \in Agents |-> NoRet]

\* sandbox handle: texts are sequences of characters, files sequences of bytes
Paths == {"/f"}
NoFile == [exists |-> FALSE, data |-> <<>>]
File(bytes) == [exists |-> TRUE, data |-> bytes]
NoOut == [kind |-> "none", value |-> <<>>]
NoResp == [failed |-> FALSE, message |-> <<>>, has_result |-> FALSE, result |-> <<>>,
           exit_code |-> 0, content |-> <<>>, existing |-> <<>>,
           read_failed |-> FALSE, upload_failed |-> FALSE, before |-> NoFile]
\* a handle on which no method was called yet, for a given remote file system
HandleInitWith(files) ==
    /\ d_files = files
    /\ d_op = "none"
    /\ d_append = FALSE
    /\ d_resp = NoResp
    /\ d_out = NoOut
HandleIdle == HandleInitWith([p \in Paths |-> NoFile])

\* signals: the provider was constructed in the main thread of a process whose
\* SIGTERM and SIGINT handlers were as given
Signals == {"SIGTERM", "SIGINT"}
Dispositions == {"callable", "SIG_DFL", "SIG_IGN"}
SignalsInitWith(previous) ==
    /\ g_previous = previous
    /\ g_installed = [s \in Signals |-> "handler"]
    /\ g_pc = "none"
    /\ g_sig = None
    /\ g_main = "outside"
    /\ g_other = "outside"
    /\ g_shutdown_called = FALSE
    /\ g_cleaned = FALSE
    /\ g_chained = [s \in Signals |-> 0]
    /\ g_reraised = [s \in Signals |-> 0]
    /\ g_delivered = 0
    /\ g_alive = TRUE
SignalsIdle == SignalsInitWith([s \in Signals |-> "SIG_DFL"])

\* bootstrap: the store before the provisioner starts, for a configuration
NoPolicy == [present |-> FALSE]
NoConn == [direction |-> "none", port |-> 0, protocol |-> "", address |-> <<0, 0, 0, 0>>]
NoPod == [built |-> FALSE]
BootstrapInitWith(cidrs, namespace, policy) ==
    /\ n_cidrs = cidrs
    /\ n_namespace = namespace
    /\ n_policy = policy
    /\ n_pc = "idle"
    /\ n_runs = 0
    /\ n_before = <<namespace, policy>>
    /\ n_again = FALSE
    /\ n_conn = NoConn
    /\ n_verdict = FALSE
    /\ n_pod = NoPod
BootstrapIdle == BootstrapInitWith(<<>>, FALSE, NoPolicy)

\* retry middleware: constructed with max_retries, no tool call made yet
NoResult == [kind |-> "none", content |-> <<>>]
RetryInitWith(max_retries) ==
    /\ r_max = max_retries
    /\ r_tool = ""
    /\ r_pc = "idle"
    /\ r_attempt = 0
    /\ r_calls = 0
    /\ r_result = NoResult
    /\ r_ret = NoResult
RetryIdle == RetryInitWith(0)

\* mutex: threading.Lock() is created unlocked
NoHolder == -1
MutexIdle ==
    /\ m_lock = NoHolder
    /\ m_entry = ""

\* memory queue: state after MemoryUpdateQueue.__init__
MemqIdle ==
    /\ q_queue = <<>>
    /\ q_timer = 0
    /\ q_status = [t \in 1..MaxTimers |-> "unused"]
    /\ q_processing = FALSE
    /\ q_passes = {}
    /\ q_flush = "idle"
    /\ q_added = <<>>
    /\ q_handed = [v \in 1..MaxAdds |-> 0]

\* the components besides the provider and the provisioner, not in use
SideIdle == HandleIdle /\ SignalsIdle /\ BootstrapIdle /\ RetryIdle /\ MutexIdle /\ MemqIdle

\* everything but component c is not in use
OthersIdle(c) ==
    /\ ClusterInit
    /\ ProviderInitWith({-1}, {MaxQuota})
    /\ IF c = "handle" THEN TRUE ELSE HandleIdle
    /\ IF c = "signals" THEN TRUE ELSE SignalsIdle
    /\ IF c = "bootstrap" THEN TRUE ELSE BootstrapIdle
    /\ IF c = "retry" THEN TRUE ELSE RetryIdle
    /\ MutexIdle
    /\ MemqIdle

\* state after __init__ for a configured idle_timeout and max_sandboxes_per_user
InitWith(raws, quotas) == ClusterInit /\ ProviderInitWith(raws, quotas) /\ SideIdle

\* ---------------------------------------------------------------- helpers
\* a call returns: leave the result visible in pc "returned"
Returns(p, o, t, s, r) ==
    /\ pc' = [pc EXCEPT ![p] = "returned"]
    /\ op' = [op EXCEPT ![p] = o]
    /\ a_thread' = [a_thread EXCEPT ![p] = t]
    /\ a_user' = [a_user EXCEPT ![p] = None]
    /\ sid' = [sid EXCEPT ![p] = s]
    /\ ret' = [ret EXCEPT ![p] = r]

\* fast-path test of acquire (lines 141-145)
ReuseHit(t) ==
    /\ Truthy(t)
    /\ t \in DOMAIN thread_sandboxes
    /\ thread_sandboxes[t] \in sandboxes

\* quota test of acquire (lines 151-154)
QuotaCount(u) == IF u \in DOMAIN user_sandboxes THEN Cardinality(user_sandboxes[u]) ELSE 0
QuotaChecked(u) == Truthy(u) /\ max_per_user > 0
\* variant: the comparison is strict
QuotaExceeded_Strict(u) == QuotaChecked(u) /\ QuotaCount(u) > max_per_user
QuotaExceeded(u) == QuotaChecked(u) /\ QuotaCount(u) >= max_per_user

\* ---------------------------------------------------------------- acquire
\* acquire is called; its first lock section is the thread-reuse fast path
AcquireCall(p, t, u) ==
    /\ pc[p] = "idle"
    /\ IF ReuseHit(t)
       THEN /\ last_activity' = Put(last_activity, thread_sandboxes[t], now)
            /\ Returns(p, "acquire", t, NoId, Ok(thread_sandboxes[t]))
       ELSE /\ pc' = [pc EXCEPT ![p] = IF QuotaChecked(u) THEN "acq_quota" ELSE "acq_create"]
            /\ op' = [op EXCEPT ![p] = "acquire"]
            /\ a_thread' = [a_thread EXCEPT ![p] = t]
            /\ a_user' = [a_user EXCEPT ![p] = u]
            /\ UNCHANGED <<last_activity, sid, ret>>
    /\ UNCHANGED <<sandboxes, thread_sandboxes, user_sandboxes, shutdown_called, shutdown_next_id,
                   idle_checker_stop, config, remote, now, todo>>
    /\ UNCHANGED <<cluster, side>>

\* variant: the remote create is issued before the quota is checked
AcquireQuota_CreateFirst(p) ==
    /\ pc[p] = "acq_quota"
    /\ next_id <= MaxIds
    /\ backend' = backend \cup {next_id}
    /\ next_id' = next_id + 1
    /\ IF QuotaExceeded(a_user[p])
       THEN Returns(p, "acquire", a_thread[p], NoId, QuotaError)
       ELSE /\ pc' = [pc EXCEPT ![p] = "acq_register"]
            /\ sid' = [sid EXCEPT ![p] = next_id]
            /\ UNCHANGED <<op, a_thread, a_user, ret>>
    /\ UNCHANGED <<pool, shutdown_called, shutdown_next_id, idle_checker_stop, config, now, todo>>
    /\ UNCHANGED <<cluster, side>>

\* per-user quota check: the count is read under the lock, compared after it
AcquireQuota(p) ==
    /\ pc[p] = "acq_quota"
    /\ IF QuotaExceeded(a_user[p])
       THEN Returns(p, "acquire", a_thread[p], NoId, QuotaError)
       ELSE /\ pc' = [pc EXCEPT ![p] = "acq_create"]
            /\ UNCHANGED <<op, a_thread, a_user, sid, ret>>
    /\ UNCHANGED <<pool, shutdown_called, shutdown_next_id, idle_checker_stop, config, remote, now, todo>>
    /\ UNCHANGED <<cluster, side>>

\* the remote create call, made without the lock; it succeeds or raises
AcquireCreate(p) ==
    /\ pc[p] = "acq_create"
    /\ \/ /\ next_id <= MaxIds
          /\ backend' = backend \cup {next_id}
          /\ next_id' = next_id + 1
          /\ sid' = [sid EXCEPT ![p] = next_id]
          /\ pc' = [pc EXCEPT ![p] = "acq_register"]
          /\ UNCHANGED <<op, a_thread, a_user, ret>>
       \/ /\ Returns(p, "acquire", a_thread[p], NoId, CreateError)
          /\ UNCHANGED remote
    /\ UNCHANGED <<pool, shutdown_called, shutdown_next_id, idle_checker_stop, config, now, todo>>
    /\ UNCHANGED <<cluster, side>>

\* variant: the registration leaves _last_activity out
AcquireRegister_NoActivity(p) ==
    /\ pc[p] = "acq_register"
    /\ sandboxes' = sandboxes \cup {sid[p]}
    /\ thread_sandboxes' = IF Truthy(a_thread[p])
                           THEN Put(thread_sandboxes, a_thread[p], sid[p])
                           ELSE thread_sandboxes
    /\ user_sandboxes' = IF Truthy(a_user[p])
                         THEN Put(user_sandboxes, a_user[p],
                                  (IF a_user[p] \in DOMAIN user_sandboxes
                                   THEN user_sandboxes[a_user[p]] ELSE {}) \cup {sid[p]})
                         ELSE user_sandboxes
    /\ Returns(p, "acquire", a_thread[p], NoId, Ok(sid[p]))
    /\ UNCHANGED <<last_activity, shutdown_called, shutdown_next_id, idle_checker_stop, config, remote, now, todo>>
    /\ UNCHANGED <<cluster, side>>

\* registration of the new sandbox in one lock section, then return
AcquireRegister(p) ==
    /\ pc[p] = "acq_register"
    /\ sandboxes' = sandboxes \cup {sid[p]}
    /\ last_activity' = Put(last_activity, sid[p], now)
    /\ thread_sandboxes' = IF Truthy(a_thread[p])
                           THEN Put(thread_sandboxes, a_thread[p], sid[p])
                           ELSE thread_sandboxes
    /\ user_sandboxes' = IF Truthy(a_user[p])
                         THEN Put(user_sandboxes, a_user[p],
                                  (IF a_user[p] \in DOMAIN user_sandboxes
                                   THEN user_sandboxes[a_user[p]] ELSE {}) \cup {sid[p]})
                         ELSE user_sandboxes
    /\ Returns(p, "acquire", a_thread[p], NoId, Ok(sid[p]))
    /\ UNCHANGED <<shutdown_called, shutdown_next_id, idle_checker_stop, config, remote, now, todo>>
    /\ UNCHANGED <<cluster, side>>

\* ---------------------------------------------------------------- get
\* variant: the timestamp is written whether or not the id is registered
Get_BumpAlways(p, s) ==
    /\ pc[p] = "idle"
    /\ last_activity' = Put(last_activity, s, now)
    /\ Returns(p, "get", None, s, IF s \in sandboxes THEN Ok(s) ELSE NoRet)
    /\ UNCHANGED <<sandboxes, thread_sandboxes, user_sandboxes, shutdown_called, shutdown_next_id,
                   idle_checker_stop, config, remote, now, todo>>
    /\ UNCHANGED <<cluster, side>>

Get(p, s) ==
    /\ pc[p] = "idle"
    /\ IF s \in sandboxes
       THEN /\ last_activity' = Put(last_activity, s, now)
            /\ Returns(p, "get", None, s, Ok(s))
       ELSE /\ UNCHANGED last_activity
            /\ Returns(p, "get", None, s, NoRet)
    /\ UNCHANGED <<sandboxes, thread_sandboxes, user_sandboxes, shutdown_called, shutdown_next_id,
                   idle_checker_stop, config, remote, now, todo>>
    /\ UNCHANGED <<cluster, side>>

\* ---------------------------------------------------------------- release
Done == [kind |-> "done", id |-> NoId]

\* ids a caller can pass: ids some acquire has returned, or a garbage string
KnownIds == (1..(next_id - 1)) \ {sid[a] : a \in {x \in Agents : pc[x] = "acq_register"}}
CallerIds == KnownIds \cup {GarbageId}

\* variant: the user sets are left as they are
DiscardUser_Keep(us, s) == us
\* variant: a user whose set became empty keeps its entry
DiscardUser_KeepEmpty(us, s) == [x \in DOMAIN us |-> us[x] \ {s}]
\* for uid, sids in list(_user_sandboxes.items()): discard; drop empty sets
DiscardUser(us, s) ==
    LET d == [x \in DOMAIN us |-> us[x] \ {s}]
    IN  [x \in {y \in DOMAIN d : d[y] # {}} |-> d[x]]

\* variant: no reverse scan, the thread entries stay
DiscardThread_Keep(ts, s) == ts
\* delete every thread entry whose value is the sandbox (reverse scan)
DiscardThread(ts, s) == [x \in {y \in DOMAIN ts : ts[y] # s} |-> ts[x]]

\* variant: the timestamp entry is not popped
ReleaseLocal_KeepActivity(s) ==
    /\ sandboxes' = sandboxes \ {s}
    /\ thread_sandboxes' = DiscardThread(thread_sandboxes, s)
    /\ last_activity' = last_activity
    /\ user_sandboxes' = DiscardUser(user_sandboxes, s)

\* release's lock section (lines 198-207)
ReleaseLocal(s) ==
    /\ sandboxes' = sandboxes \ {s}
    /\ thread_sandboxes' = DiscardThread(thread_sandboxes, s)
    /\ last_activity' = Pop(last_activity, s)
    /\ user_sandboxes' = DiscardUser(user_sandboxes, s)

\* variant: the remote delete is issued whether or not the id was registered
ReleaseCall_AlwaysDelete(p, s) ==
    /\ pc[p] = "idle"
    /\ ReleaseLocal(s)
    /\ pc' = [pc EXCEPT ![p] = "rel_delete"]
    /\ op' = [op EXCEPT ![p] = "release"]
    /\ sid' = [sid EXCEPT ![p] = s]
    /\ UNCHANGED <<a_thread, a_user, ret>>
    /\ UNCHANGED <<shutdown_called, shutdown_next_id, idle_checker_stop, config, remote, now, todo>>
    /\ UNCHANGED <<cluster, side>>

\* release is called by a caller thread; the remote delete is skipped
\* when the id was not registered
ReleaseCall(p, s) ==
    /\ pc[p] = "idle"
    /\ ReleaseLocal(s)
    /\ IF s \in sandboxes
       THEN /\ pc' = [pc EXCEPT ![p] = "rel_delete"]
            /\ op' = [op EXCEPT ![p] = "release"]
            /\ sid' = [sid EXCEPT ![p] = s]
            /\ UNCHANGED <<a_thread, a_user, ret>>
       ELSE Returns(p, "release", None, s, Done)
    /\ UNCHANGED <<shutdown_called, shutdown_next_id, idle_checker_stop, config, remote, now, todo>>
    /\ UNCHANGED <<cluster, side>>

\* the remote delete call, made without the lock; a failure is logged and
\* swallowed; control goes back to whoever called release
ReleaseDelete(a) ==
    /\ pc[a] = "rel_delete"
    /\ \/ backend' = backend \ {sid[a]}
       \/ UNCHANGED backend
    /\ IF op[a] = "release"
       THEN Returns(a, "release", None, sid[a], Done)
       ELSE /\ pc' = [pc EXCEPT ![a] = IF op[a] = "shutdown" THEN "sd_loop" ELSE "sw_loop"]
            /\ sid' = [sid EXCEPT ![a] = NoId]
            /\ UNCHANGED <<op, a_thread, a_user, ret>>
    /\ UNCHANGED <<pool, shutdown_called, shutdown_next_id, idle_checker_stop, config, next_id, now, todo>>
    /\ UNCHANGED <<cluster, side>>

\* ---------------------------------------------------------------- shutdown
\* variant: the flag is set but never tested
ShutdownCall_NoFlag(p) ==
    /\ pc[p] = "idle"
    /\ shutdown_called' = TRUE
    /\ shutdown_next_id' = next_id
    /\ todo' = [todo EXCEPT ![p] = sandboxes]
    /\ pc' = [pc EXCEPT ![p] = "sd_stop"]
    /\ op' = [op EXCEPT ![p] = "shutdown"]
    /\ UNCHANGED <<a_thread, a_user, sid, ret>>
    /\ UNCHANGED <<pool, idle_checker_stop, config, remote, now>>
    /\ UNCHANGED <<cluster, side>>

ShutdownCall(p) ==
    /\ pc[p] = "idle"
    /\ IF shutdown_called
       THEN /\ Returns(p, "shutdown", None, NoId, Done)
            /\ UNCHANGED <<shutdown_called, shutdown_next_id, todo>>
       ELSE /\ shutdown_called' = TRUE
            /\ shutdown_next_id' = next_id
            /\ todo' = [todo EXCEPT ![p] = sandboxes]
            /\ pc' = [pc EXCEPT ![p] = "sd_stop"]
            /\ op' = [op EXCEPT ![p] = "shutdown"]
            /\ UNCHANGED <<a_thread, a_user, sid, ret>>
    /\ UNCHANGED <<pool, idle_checker_stop, config, remote, now>>
    /\ UNCHANGED <<cluster, side>>

\* signal the idle checker; the join is bounded, so shutdown goes on
\* whether or not the checker has exited
\* variant: the stop event is not set
ShutdownStop_NoSignal(p) ==
    /\ pc[p] = "sd_stop"
    /\ pc' = [pc EXCEPT ![p] = "sd_loop"]
    /\ UNCHANGED <<pool, shutdown_called, shutdown_next_id, idle_checker_stop, config, remote, now,
                   op, locals, ret>>
    /\ UNCHANGED <<cluster, side>>

ShutdownStop(p) ==
    /\ pc[p] = "sd_stop"
    /\ idle_checker_stop' = TRUE
    /\ pc' = [pc EXCEPT ![p] = "sd_loop"]
    /\ UNCHANGED <<pool, shutdown_called, shutdown_next_id, config, remote, now, op, locals, ret>>
    /\ UNCHANGED <<cluster, side>>

\* one iteration of a loop "for sandbox_id in ids: self.release(sandbox_id)":
\* runs release's lock section for one id of todo
LoopRelease(a, loop_pc, s) ==
    /\ ReleaseLocal(s)
    /\ todo' = [todo EXCEPT ![a] = todo[a] \ {s}]
    /\ IF s \in sandboxes
       THEN /\ pc' = [pc EXCEPT ![a] = "rel_delete"]
            /\ sid' = [sid EXCEPT ![a] = s]
       ELSE /\ pc' = [pc EXCEPT ![a] = loop_pc]
            /\ UNCHANGED sid
    /\ UNCHANGED <<op, a_thread, a_user, ret>>

ShutdownLoop(p) ==
    /\ pc[p] = "sd_loop"
    /\ IF todo[p] = {}
       THEN /\ Returns(p, "shutdown", None, NoId, Done)
            /\ UNCHANGED <<pool, todo>>
       ELSE \E s \in todo[p] : LoopRelease(p, "sd_loop", s)
    /\ UNCHANGED <<shutdown_called, shutdown_next_id, idle_checker_stop, config, remote, now>>
    /\ UNCHANGED <<cluster, side>>

\* ---------------------------------------------------------------- idle sweep
\* variant: the timeout is taken to be in minutes
IdleIds_Minutes == {s \in DOMAIN last_activity : now - last_activity[s] > idle_timeout * 60}

\* _cleanup_idle's scan (lines 253-258)
IdleIds == {s \in DOMAIN last_activity : now - last_activity[s] > idle_timeout}

\* variant: the wait's result is ignored, the checker scans after every wait
SweepWake_IgnoreStop ==
    /\ pc[Sweeper] = "sw_wait"
    /\ pc' = [pc EXCEPT ![Sweeper] = "sw_loop"]
    /\ todo' = [todo EXCEPT ![Sweeper] = IdleIds]
    /\ UNCHANGED <<pool, shutdown_called, shutdown_next_id, idle_checker_stop, config, remote, now,
                   op, a_thread, a_user, sid, ret>>
    /\ UNCHANGED <<cluster, side>>

\* the checker's wait ends: it exits when the stop event is set, else scans
SweepWake ==
    /\ pc[Sweeper] = "sw_wait"
    /\ IF idle_checker_stop
       THEN /\ pc' = [pc EXCEPT ![Sweeper] = "sw_exit"]
            /\ UNCHANGED todo
       ELSE /\ pc' = [pc EXCEPT ![Sweeper] = "sw_loop"]
            /\ todo' = [todo EXCEPT ![Sweeper] = IdleIds]
    /\ UNCHANGED <<pool, shutdown_called, shutdown_next_id, idle_checker_stop, config, remote, now,
                   op, a_thread, a_user, sid, ret>>
    /\ UNCHANGED <<cluster, side>>

SweepLoop ==
    /\ pc[Sweeper] = "sw_loop"
    /\ IF todo[Sweeper] = {}
       THEN /\ pc' = [pc EXCEPT ![Sweeper] = "sw_wait"]
            /\ UNCHANGED <<pool, op, locals, ret>>
       ELSE \E s \in todo[Sweeper] : LoopRelease(Sweeper, "sw_loop", s)
    /\ UNCHANGED <<shutdown_called, shutdown_next_id, idle_checker_stop, config, remote, now>>
    /\ UNCHANGED <<cluster, side>>

\* ---------------------------------------------------------------- environment
Tick ==
    /\ now < MaxTime
    /\ now' = now + TickStep
    /\ UNCHANGED <<pool, shutdown_called, shutdown_next_id, idle_checker_stop, config, remote,
                   pc, op, locals, ret>>
    /\ UNCHANGED <<cluster, side>>

\* the caller consumes the result and is ready for its next call
Return(p) ==
    /\ pc[p] = "returned"
    /\ pc' = [pc EXCEPT ![p] = "idle"]
    /\ op' = [op EXCEPT ![p] = "none"]
    /\ a_thread' = [a_thread EXCEPT ![p] = None]
    /\ a_user' = [a_user EXCEPT ![p] = None]
    /\ sid' = [sid EXCEPT ![p] = NoId]
    /\ ret' = [ret EXCEPT ![p] = NoRet]
    /\ UNCHANGED <<pool, shutdown_called, shutdown_next_id, idle_checker_stop, config, remote, now, todo>>
    /\ UNCHANGED <<cluster, side>>

\* ---------------------------------------------------------------- specifications
\* Spec: callers, shutdown and a running idle checker (idle_timeout = 1)
Init == InitWith({1}, {MaxQuota})

Next ==
    \/ \E p \in Procs, a \in FullAcquireArgs : AcquireCall(p, a[1], a[2])
    \/ \E p \in Procs : AcquireQuota(p)
    \/ \E p \in Procs : AcquireCreate(p)
    \/ \E p \in Procs : AcquireRegister(p)
    \/ \E p \in Procs : \E s \in CallerIds : Get(p, s)
    \/ \E p \in Procs : \E s \in CallerIds : ReleaseCall(p, s)
    \/ \E a \in Agents : ReleaseDelete(a)
    \/ \E p \in Procs : ShutdownCall(p)
    \/ \E p \in Procs : ShutdownStop(p)
    \/ \E p \in Procs : ShutdownLoop(p)
    \/ SweepWake
    \/ SweepLoop
    \/ Tick
    \/ \E p \in Procs : Return(p)

Spec == Init /\ [][Next]_vars

\* SpecCallers: concurrent acquire / get / release with every argument pair and
\* every quota setting; the idle checker is disabled (idle_timeout = -1)
InitCallers == InitWith({-1}, 0..MaxQuota)

NextCallers ==
    \/ \E p \in Procs, a \in AcquireArgs : AcquireCall(p, a[1], a[2])
    \/ \E p \in Procs : AcquireQuota(p)
    \/ \E p \in Procs : AcquireCreate(p)
    \/ \E p \in Procs : AcquireRegister(p)
    \/ \E p \in Procs : \E s \in CallerIds : Get(p, s)
    \/ \E p \in Procs : \E s \in CallerIds : ReleaseCall(p, s)
    \/ \E p \in Procs : ReleaseDelete(p)
    \/ Tick
    \/ \E p \in Procs : Return(p)

SpecCallers == InitCallers /\ [][NextCallers]_vars

\* SpecQuiet: as Spec, but shutdown is only called while no acquire is in
\* flight and no acquire is started once shutdown has been called
AcquireInFlight == \E p \in Procs : pc[p] \in {"acq_quota", "acq_create", "acq_register"}

InitQuiet == InitWith({1}, {MaxQuota})

NextQuiet ==
    \/ \E p \in Procs, a \in FullAcquireArgs : ~shutdown_called /\ AcquireCall(p, a[1], a[2])
    \/ \E p \in Procs : AcquireQuota(p)
    \/ \E p \in Procs : AcquireCreate(p)
    \/ \E p \in Procs : AcquireRegister(p)
    \/ \E p \in Procs : \E s \in CallerIds : Get(p, s)
    \/ \E p \in Procs : \E s \in CallerIds : ReleaseCall(p, s)
    \/ \E a \in Agents : ReleaseDelete(a)
    \/ \E p \in Procs : ~AcquireInFlight /\ ShutdownCall(p)
    \/ \E p \in Procs : ShutdownStop(p)
    \/ \E p \in Procs : ShutdownLoop(p)
    \/ SweepWake
    \/ SweepLoop
    \/ Tick
    \/ \E p \in Procs : Return(p)

SpecQuiet == InitQuiet /\ [][NextQuiet]_vars

\* SpecSweep: one caller and a running idle checker, no shutdown. The checker is
\* a thread of its own whose wait times out every IDLE_CHECK_INTERVAL seconds
\* and whose remote calls carry timeouts, so each of its steps is taken once
\* it stays enabled.
SweepCallers == {1}

InitSweep == InitWith({1}, {MaxQuota})

NextSweep ==
    \/ \E p \in SweepCallers, a \in FullAcquireArgs : AcquireCall(p, a[1], a[2])
    \/ \E p \in SweepCallers : AcquireQuota(p)
    \/ \E p \in SweepCallers : AcquireCreate(p)
    \/ \E p \in SweepCallers : AcquireRegister(p)
    \/ \E p \in SweepCallers : \E s \in CallerIds : Get(p, s)
    \/ \E p \in SweepCallers : \E s \in CallerIds : ReleaseCall(p, s)
    \/ \E a \in Agents : ReleaseDelete(a)
    \/ SweepWake
    \/ SweepLoop
    \/ Tick
    \/ \E p \in SweepCallers : Return(p)

SweepFairness ==
    /\ WF_vars(SweepWake)
    /\ WF_vars(SweepLoop)
    /\ WF_vars(ReleaseDelete(Sweeper))

SpecSweep == InitSweep /\ [][NextSweep]_vars /\ SweepFairness

\* SpecStop: the idle checker, and one caller that acquires, gets and shuts
\* the provider down but never calls release itself; a remote delete may
\* fail. Fairness as in SpecSweep.
InitStop == InitWith({1}, {MaxQuota})

NextStop ==
    \/ \E p \in SweepCallers, a \in FullAcquireArgs : AcquireCall(p, a[1], a[2])
    \/ \E p \in SweepCallers : AcquireQuota(p)
    \/ \E p \in SweepCallers : AcquireCreate(p)
    \/ \E p \in SweepCallers : AcquireRegister(p)
    \/ \E p \in SweepCallers : \E s \in CallerIds : Get(p, s)
    \/ \E a \in Agents : ReleaseDelete(a)
    \/ \E p \in SweepCallers : ShutdownCall(p)
    \/ \E p \in SweepCallers : ShutdownStop(p)
    \/ \E p \in SweepCallers : ShutdownLoop(p)
    \/ SweepWake
    \/ SweepLoop
    \/ Tick
    \/ \E p \in SweepCallers : Return(p)

SpecStop == InitStop /\ [][NextStop]_vars /\ SweepFairness

\* SpecConfig: the caller and the idle checker of SpecSweep, started from
\* every configured idle_timeout that is zero or negative
NonPositiveIdle == {-1, 0}

InitConfig == InitWith(NonPositiveIdle, {MaxQuota})

SpecConfig == InitConfig /\ [][NextSweep]_vars

\* ================================================================ provisioner
SandboxIds == {"a", "b"}
Ports == 1..MaxPorts
POLL_BUDGET == 20

PodName(x) == <<"sandbox-", x>>
SvcName(x) == <<"sandbox-", x, "-svc">>

\* _get_node_port: the Service's node port, None (0) when the Service is
\* missing or has no port yet; the read answers from the scheduler's store
GetNodePort(x) ==
    IF SvcName(x) \in DOMAIN services THEN services[SvcName(x)].node_port ELSE 0
\* _get_pod_phase; the phases of an existing Pod are not told apart
GetPodPhase(x) == IF PodName(x) \in pods THEN "Running" ELSE "NotFound"
\* the SandboxResponse built from a truthy node port
SandboxResponse(x, node_port) ==
    Response(200, x, SandboxUrl(node_port), GetPodPhase(x), "", <<>>, <<>>)

\* the request replica r is handling (or handled last) writes its local f
Upd(f, r, v) == [f EXCEPT ![r] = v]

\* replica r accepts a request when it is handling none
Ready(r) == h_pc[r] \in {"idle", "returned"}
\* a request starts: its locals are fresh
Begin(r, o, x, k) ==
    /\ h_req' = Upd(h_req, r, 1 - h_req[r])
    /\ h_pc' = Upd(h_pc, r, k)
    /\ h_op' = Upd(h_op, r, o)
    /\ h_id' = Upd(h_id, r, x)
    /\ h_polls' = Upd(h_polls, r, 0)
    /\ h_made_pod' = Upd(h_made_pod, r, FALSE)
    /\ h_errors' = Upd(h_errors, r, <<>>)
\* the handler returns or raises: the response is resp
Respond(r, resp) ==
    /\ h_pc' = Upd(h_pc, r, "returned")
    /\ h_ret' = Upd(h_ret, r, resp)

\* POST /api/sandboxes: the fast path
CreateCall(r, x) ==
    /\ Ready(r)
    /\ IF GetNodePort(x) # 0
       THEN /\ Begin(r, "create", x, "returned")
            /\ h_ret' = Upd(h_ret, r, SandboxResponse(x, GetNodePort(x)))
       ELSE /\ Begin(r, "create", x, "c_pod")
            /\ UNCHANGED h_ret
    /\ UNCHANGED <<k8s, api_faulty, provider, side>>

\* variant: an AlreadyExists answer is reported like any other failure
CreatePod_Strict(r) ==
    /\ h_pc[r] = "c_pod"
    /\ \/ /\ PodName(h_id[r]) \notin pods
          /\ pods' = pods \cup {PodName(h_id[r])}
          /\ h_made_pod' = Upd(h_made_pod, r, TRUE)
          /\ h_pc' = Upd(h_pc, r, "c_svc")
          /\ UNCHANGED h_ret
       \/ /\ api_faulty \/ PodName(h_id[r]) \in pods
          /\ Respond(r, Response(500, h_id[r], NoUrl, "", "Pod creation failed", <<>>, <<>>))
          /\ UNCHANGED <<pods, h_made_pod>>
    /\ UNCHANGED <<services, api_faulty, h_req, h_op, h_id, h_polls, h_errors, provider, side>>

\* create_namespaced_pod: created, 409 AlreadyExists (ignored), or another
\* failure of the call
CreatePod(r) ==
    /\ h_pc[r] = "c_pod"
    /\ \/ /\ PodName(h_id[r]) \notin pods
          /\ pods' = pods \cup {PodName(h_id[r])}
          /\ h_made_pod' = Upd(h_made_pod, r, TRUE)
          /\ h_pc' = Upd(h_pc, r, "c_svc")
          /\ UNCHANGED h_ret
       \/ /\ PodName(h_id[r]) \in pods
          /\ h_pc' = Upd(h_pc, r, "c_svc")
          /\ UNCHANGED <<pods, h_made_pod, h_ret>>
       \/ /\ api_faulty
          /\ Respond(r, Response(500, h_id[r], NoUrl, "", "Pod creation failed", <<>>, <<>>))
          /\ UNCHANGED <<pods, h_made_pod>>
    /\ UNCHANGED <<services, api_faulty, h_req, h_op, h_id, h_polls, h_errors, provider, side>>

\* variant: a failed Service creation leaves the Pod in place
CreateService_NoRollback(r) ==
    /\ h_pc[r] = "c_svc"
    /\ \/ /\ SvcName(h_id[r]) \notin DOMAIN services
          /\ services' = Put(services, SvcName(h_id[r]),
                             [sandbox_id |-> h_id[r], node_port |-> 0])
          /\ h_pc' = Upd(h_pc, r, "c_poll")
          /\ UNCHANGED <<pods, h_ret>>
       \/ /\ SvcName(h_id[r]) \in DOMAIN services
          /\ h_pc' = Upd(h_pc, r, "c_poll")
          /\ UNCHANGED <<pods, services, h_ret>>
       \/ /\ api_faulty
          /\ Respond(r, Response(500, h_id[r], NoUrl, "", "Service creation failed", <<>>, <<>>))
          /\ UNCHANGED <<pods, services>>
    /\ UNCHANGED <<api_faulty, h_req, h_op, h_id, h_polls, h_made_pod, h_errors, provider, side>>

\* create_namespaced_service: created (port not yet allocated), 409 (ignored),
\* or another failure, which leads to the rollback
CreateService(r) ==
    /\ h_pc[r] = "c_svc"
    /\ \/ /\ SvcName(h_id[r]) \notin DOMAIN services
          /\ services' = Put(services, SvcName(h_id[r]),
                             [sandbox_id |-> h_id[r], node_port |-> 0])
          /\ h_pc' = Upd(h_pc, r, "c_poll")
          /\ UNCHANGED <<pods, h_ret>>
       \/ /\ SvcName(h_id[r]) \in DOMAIN services
          /\ h_pc' = Upd(h_pc, r, "c_poll")
          /\ UNCHANGED <<pods, services, h_ret>>
       \/ /\ api_faulty
          /\ h_pc' = Upd(h_pc, r, "c_rollback")
          /\ UNCHANGED <<pods, services, h_ret>>
    /\ UNCHANGED <<api_faulty, h_req, h_op, h_id, h_polls, h_made_pod, h_errors, provider, side>>

\* the rollback: delete_namespaced_pod, whose failure is ignored, then the
\* error response
CreateRollback(r) ==
    /\ h_pc[r] = "c_rollback"
    /\ \/ pods' = pods \ {PodName(h_id[r])}
       \/ api_faulty /\ UNCHANGED pods
    /\ Respond(r, Response(500, h_id[r], NoUrl, "", "Service creation failed", <<>>, <<>>))
    /\ UNCHANGED <<services, api_faulty, h_req, h_op, h_id, h_polls, h_made_pod,
                   h_errors, provider, side>>

\* one iteration of the poll loop; the iteration that uses up the budget
\* without a port falls through to the error
CreatePoll(r) ==
    /\ h_pc[r] = "c_poll"
    /\ h_polls[r] < POLL_BUDGET
    /\ h_polls' = Upd(h_polls, r, h_polls[r] + 1)
    /\ IF GetNodePort(h_id[r]) # 0
       THEN Respond(r, SandboxResponse(h_id[r], GetNodePort(h_id[r])))
       ELSE IF h_polls[r] + 1 = POLL_BUDGET
            THEN Respond(r, Response(500, h_id[r], NoUrl, "",
                                     "NodePort was not allocated in time", <<>>, <<>>))
            ELSE UNCHANGED <<h_pc, h_ret>>
    /\ UNCHANGED <<k8s, api_faulty, h_req, h_op, h_id, h_made_pod, h_errors, provider, side>>

\* DELETE /api/sandboxes/{sandbox_id}: nothing is deleted before the
\* Service's deletion is tried
DestroyCall(r, x) ==
    /\ Ready(r)
    /\ Begin(r, "destroy", x, "d_svc")
    /\ UNCHANGED <<k8s, api_faulty, h_ret, provider, side>>

\* variant: a failed Service deletion ends the request
DestroyService_Abort(r) ==
    /\ h_pc[r] = "d_svc"
    /\ \/ /\ services' = Pop(services, SvcName(h_id[r]))
          /\ h_pc' = Upd(h_pc, r, "d_pod")
          /\ UNCHANGED <<h_errors, h_ret>>
       \/ /\ api_faulty
          /\ h_errors' = Upd(h_errors, r, Append(h_errors[r], "service"))
          /\ Respond(r, Response(500, h_id[r], NoUrl, "", "Partial cleanup",
                                 h_errors'[r], <<>>))
          /\ UNCHANGED services
    /\ UNCHANGED <<pods, api_faulty, h_req, h_op, h_id, h_polls, h_made_pod, provider, side>>

\* delete_namespaced_service: deleted, 404 (ignored), or another failure,
\* which is recorded
DestroyService(r) ==
    /\ h_pc[r] = "d_svc"
    /\ \/ /\ services' = Pop(services, SvcName(h_id[r]))
          /\ UNCHANGED h_errors
       \/ /\ api_faulty
          /\ h_errors' = Upd(h_errors, r, Append(h_errors[r], "service"))
          /\ UNCHANGED services
    /\ h_pc' = Upd(h_pc, r, "d_pod")
    /\ UNCHANGED <<pods, api_faulty, h_req, h_op, h_id, h_polls, h_made_pod, h_ret,
                   provider, side>>

\* delete_namespaced_pod, then the response: ok when nothing was recorded
DestroyPod(r) ==
    /\ h_pc[r] = "d_pod"
    /\ \/ /\ pods' = pods \ {PodName(h_id[r])}
          /\ UNCHANGED h_errors
       \/ /\ api_faulty
          /\ h_errors' = Upd(h_errors, r, Append(h_errors[r], "pod"))
          /\ UNCHANGED pods
    /\ IF h_errors'[r] # <<>>
       THEN Respond(r, Response(500, h_id[r], NoUrl, "", "Partial cleanup",
                                h_errors'[r], <<>>))
       ELSE Respond(r, Response(200, h_id[r], NoUrl, "", "", <<>>, <<>>))
    /\ UNCHANGED <<services, api_faulty, h_req, h_op, h_id, h_polls, h_made_pod, provider, side>>

\* variant: the url names the port after the Service's
GetSandbox_OtherPort(r, x) ==
    /\ Ready(r)
    /\ Begin(r, "status", x, "returned")
    /\ h_ret' = Upd(h_ret, r, IF GetNodePort(x) # 0
                              THEN SandboxResponse(x, GetNodePort(x) + 1)
                              ELSE Response(404, x, NoUrl, "", "not found", <<>>, <<>>))
    /\ UNCHANGED <<k8s, api_faulty, provider, side>>

\* GET /api/sandboxes/{sandbox_id}
GetSandbox(r, x) ==
    /\ Ready(r)
    /\ Begin(r, "status", x, "returned")
    /\ h_ret' = Upd(h_ret, r, IF GetNodePort(x) # 0
                              THEN SandboxResponse(x, GetNodePort(x))
                              ELSE Response(404, x, NoUrl, "", "not found", <<>>, <<>>))
    /\ UNCHANGED <<k8s, api_faulty, provider, side>>

\* the orders in which list_namespaced_service may return the Services
Orders(S) == {o \in [1..Cardinality(S) -> S] : \A i, j \in DOMAIN o : o[i] = o[j] => i = j}
\* list_sandboxes' loop: Services without the label or without a port are skipped
HasPort(n) == Truthy(services[n].sandbox_id) /\ services[n].node_port # 0
ListItems(order) ==
    LET kept == SelectSeq(order, HasPort)
    IN  [i \in 1..Len(kept) |->
            [sandbox_id |-> services[kept[i]].sandbox_id,
             url |-> SandboxUrl(services[kept[i]].node_port),
             status |-> GetPodPhase(services[kept[i]].sandbox_id)]]

\* GET /api/sandboxes: the listing, or 500 when the list call fails
ListSandboxes(r) ==
    /\ Ready(r)
    /\ Begin(r, "list", None, "returned")
    /\ \/ \E order \in Orders(DOMAIN services) :
             h_ret' = Upd(h_ret, r, Response(200, None, NoUrl, "", "", <<>>, ListItems(order)))
       \/ /\ api_faulty
          /\ h_ret' = Upd(h_ret, r, Response(500, None, NoUrl, "",
                                            "Failed to list services", <<>>, <<>>))
    /\ UNCHANGED <<k8s, api_faulty, provider, side>>

\* the scheduler allocates a free node port to a Service that has none
PortsInUse == {services[n].node_port : n \in DOMAIN services}
AllocatePort(x) ==
    /\ SvcName(x) \in DOMAIN services
    /\ services[SvcName(x)].node_port = 0
    /\ \E port \in Ports \ PortsInUse :
          services' = [services EXCEPT ![SvcName(x)].node_port = port]
    /\ UNCHANGED <<pods, api_faulty, handler, provider, side>>

\* SpecCluster: one replica serving requests for two sandbox ids, against a
\* scheduler whose calls may fail
ClusterReplicas == {1}

InitCluster == InitWith({-1}, {MaxQuota})

NextCluster ==
    \/ \E r \in ClusterReplicas, x \in SandboxIds : CreateCall(r, x)
    \/ \E r \in ClusterReplicas : CreatePod(r)
    \/ \E r \in ClusterReplicas : CreateService(r)
    \/ \E r \in ClusterReplicas : CreateRollback(r)
    \/ \E r \in ClusterReplicas : CreatePoll(r)
    \/ \E r \in ClusterReplicas, x \in SandboxIds : DestroyCall(r, x)
    \/ \E r \in ClusterReplicas : DestroyService(r)
    \/ \E r \in ClusterReplicas : DestroyPod(r)
    \/ \E r \in ClusterReplicas, x \in SandboxIds : GetSandbox(r, x)
    \/ \E r \in ClusterReplicas : ListSandboxes(r)
    \/ \E x \in SandboxIds : AllocatePort(x)

SpecCluster == InitCluster /\ [][NextCluster]_vars

\* ================================================================ properties
\* sandboxes of user u that are registered in the pool
HeldIn(u, sb, us) == Cardinality({s \in sb : u \in DOMAIN us /\ s \in us[u]})
Held(u) == HeldIn(u, sandboxes, user_sandboxes)
\* ids that were registered once and are not registered any more
Released == KnownIds \ sandboxes
\* s occurs in none of the four maps
AbsentFrom(s, sb, ts, la, us) ==
    /\ s \notin sb
    /\ s \notin DOMAIN la
    /\ \A t \in DOMAIN ts : ts[t] # s
    /\ \A u \in DOMAIN us : s \notin us[u]
\* thread p takes a step out of position k
Leaves(p, k) == pc[p] = k /\ pc'[p] # k
\* thread p's call of method o returns in this step
ReturnsNow(p, o) == pc[p] # "returned" /\ pc'[p] = "returned" /\ op'[p] = o

\* C1: while a caller holds the id A that acquire(thread_id) returned to it and
\* A is still registered, an acquire that starts for the same thread_id returns
\* A at once, without a backend create and without touching the quota sets.
C1_ReuseReturnsSame ==
    [][\A p \in Procs, q \in Procs :
        ( /\ pc[q] = "returned" /\ op[q] = "acquire" /\ ret[q].kind = "ok"
          /\ Truthy(a_thread[q]) /\ ret[q].id \in sandboxes
          /\ pc[p] = "idle" /\ op'[p] = "acquire" /\ a_thread'[p] = a_thread[q] )
        => ( /\ pc'[p] = "returned"
             /\ ret'[p] = Ok(ret[q].id)
             /\ UNCHANGED <<backend, next_id, user_sandboxes>> )]_vars

\* C2: an acquire that reaches the quota decision is rejected with the quota
\* error exactly when user_id is given, max_sandboxes_per_user > 0 and the
\* user's own registered sandboxes number at least max_sandboxes_per_user;
\* quota errors come from nowhere else, and an acquire that skips the
\* decision would not have been rejected.
C2_QuotaIff ==
    [][\A p \in Procs :
        LET over(u) == Truthy(u) /\ max_per_user > 0 /\ Held(u) >= max_per_user
        IN  /\ Leaves(p, "acq_quota") => ((ret'[p] = QuotaError) <=> over(a_user[p]))
            /\ (Leaves(p, "acq_quota") /\ ~over(a_user[p])) => pc'[p] = "acq_create"
            /\ (ret'[p] = QuotaError /\ ret[p] # QuotaError) => pc[p] = "acq_quota"
            /\ (pc[p] = "idle" /\ pc'[p] = "acq_create") => ~over(a_user'[p])]_vars

\* a user at quota is rejected while the other user holds a sandbox too
C2_Witness ==
    \E p \in Procs :
        /\ pc[p] = "returned" /\ ret[p] = QuotaError
        /\ DOMAIN user_sandboxes = Users

\* C3: the two steps of an acquire that ends in the quota error (the reuse
\* miss and the rejection) change neither the pool maps nor the backend, and
\* the rejection follows the miss directly: no create call lies between.
C3_QuotaFailNoEffect ==
    [][\A p \in Procs :
        /\ (ret'[p] = QuotaError /\ ret[p] # QuotaError)
              => (pc[p] = "acq_quota" /\ UNCHANGED <<pool, backend, next_id>>)
        /\ (pc'[p] = "acq_quota" /\ pc[p] # "acq_quota")
              => (pc[p] = "idle" /\ UNCHANGED <<pool, backend, next_id>>)]_vars

\* a rejection has happened and every sandbox the backend runs is registered
C3_Witness ==
    \E p \in Procs :
        /\ pc[p] = "returned" /\ op[p] = "acquire" /\ ret[p] = QuotaError
        /\ sandboxes # {} /\ backend = sandboxes

\* C4: with max_sandboxes_per_user = N > 0, an acquire deciding the quota
\* while its user holds N sandboxes is rejected; a release takes exactly the
\* released sandbox out of its user's count; an acquire deciding while the
\* user holds N - 1 goes on to the create call, and its registration brings
\* the count back up by one.
C4_ReleaseFreesSlot ==
    [][\A p \in Procs : max_per_user > 0 =>
        /\ (Leaves(p, "acq_quota") /\ Held(a_user[p]) = max_per_user)
              => ret'[p] = QuotaError
        /\ (Leaves(p, "acq_quota") /\ Held(a_user[p]) = max_per_user - 1)
              => pc'[p] = "acq_create"
        /\ (pc[p] = "idle" /\ op'[p] = "release")
              => \A u \in Users :
                    HeldIn(u, sandboxes', user_sandboxes')
                        = Held(u) - (IF u \in DOMAIN user_sandboxes
                                        /\ sid'[p] \in user_sandboxes[u]
                                        /\ sid'[p] \in sandboxes THEN 1 ELSE 0)
        /\ Leaves(p, "acq_register")
              => /\ ret'[p] = Ok(sid[p])
                 /\ Truthy(a_user[p])
                       => HeldIn(a_user[p], sandboxes', user_sandboxes')
                              = Held(a_user[p]) + 1]_vars

\* a user is back at N after an acquire that was given a later id than the
\* first N the backend handed out
C4_Witness ==
    /\ max_per_user > 0
    /\ \E p \in Procs :
          /\ pc[p] = "returned" /\ op[p] = "acquire" /\ ret[p].kind = "ok"
          /\ ret[p].id > max_per_user
          /\ \E u \in DOMAIN user_sandboxes :
                /\ ret[p].id \in user_sandboxes[u]
                /\ Cardinality(user_sandboxes[u]) = max_per_user
          /\ Cardinality(sandboxes) = max_per_user

\* C5: whenever max_sandboxes_per_user > 0, no user's quota set has more than
\* max_sandboxes_per_user elements.
C5_QuotaBound ==
    max_per_user > 0 =>
        \A u \in DOMAIN user_sandboxes : Cardinality(user_sandboxes[u]) <= max_per_user

\* C6: every ThreadAffinity entry refers to a registered sandbox (the map is a
\* function of thread_id, so a thread has at most one entry).
C6_AffinityLive ==
    /\ DOMAIN thread_sandboxes \subseteq Threads
    /\ \A t \in DOMAIN thread_sandboxes : thread_sandboxes[t] \in sandboxes

\* a thread entry is present while shutdown has begun and the idle checker is
\* in the middle of releasing a sandbox
C6_Witness ==
    /\ DOMAIN thread_sandboxes # {}
    /\ shutdown_called
    /\ pc[Sweeper] = "rel_delete"

\* C7: two acquire calls for the same thread_id whose sandboxes are both
\* registered returned the same sandbox id.
C7_OnePerThread ==
    \A p \in Procs, q \in Procs :
        ( /\ pc[p] = "returned" /\ op[p] = "acquire" /\ ret[p].kind = "ok"
          /\ pc[q] = "returned" /\ op[q] = "acquire" /\ ret[q].kind = "ok"
          /\ Truthy(a_thread[p]) /\ a_thread[p] = a_thread[q]
          /\ ret[p].id \in sandboxes /\ ret[q].id \in sandboxes )
        => ret[p].id = ret[q].id

\* C8: a failed create call ends acquire with the create error and leaves the
\* pool maps as they were; a successful one registers nothing by itself, and
\* the registration step then puts the new id, absent from every map until
\* then, into the live set, LastActivity, ThreadAffinity (thread_id given) and
\* UserQuota (user_id given) all at once and returns it.
C8_CreateAllOrNothing ==
    [][\A p \in Procs :
        /\ (Leaves(p, "acq_create") /\ next_id' = next_id)
              => (pc'[p] = "returned" /\ ret'[p] = CreateError
                  /\ UNCHANGED <<pool, backend>>)
        /\ (Leaves(p, "acq_create") /\ next_id' # next_id)
              => (pc'[p] = "acq_register" /\ UNCHANGED pool
                  /\ AbsentFrom(sid'[p], sandboxes, thread_sandboxes,
                                last_activity, user_sandboxes))
        /\ Leaves(p, "acq_register")
              => LET s == sid[p]
                     t == a_thread[p]
                     u == a_user[p]
                 IN  /\ AbsentFrom(s, sandboxes, thread_sandboxes,
                                   last_activity, user_sandboxes)
                     /\ ret'[p] = Ok(s)
                     /\ sandboxes' = sandboxes \cup {s}
                     /\ s \in DOMAIN last_activity' /\ last_activity'[s] = now
                     /\ IF Truthy(t)
                        THEN t \in DOMAIN thread_sandboxes' /\ thread_sandboxes'[t] = s
                        ELSE thread_sandboxes' = thread_sandboxes
                     /\ IF Truthy(u)
                        THEN u \in DOMAIN user_sandboxes' /\ s \in user_sandboxes'[u]
                        ELSE user_sandboxes' = user_sandboxes]_vars

\* one acquire has failed in the create call while another one's sandbox is
\* registered
C8_Witness ==
    \E p \in Procs, q \in Procs :
        /\ pc[p] = "returned" /\ ret[p] = CreateError
        /\ pc[q] = "returned" /\ op[q] = "acquire" /\ ret[q].kind = "ok"
        /\ ret[q].id \in sandboxes /\ ret[q].id \in DOMAIN last_activity

\* C9: get returns the handle exactly when the id is registered; a hit changes
\* nothing but LastActivity[sandbox_id], which becomes the current time; a
\* miss returns None and changes nothing (no LastActivity entry appears).
C9_GetFrame ==
    [][\A p \in Procs : (pc[p] = "idle" /\ op'[p] = "get") =>
        LET s == sid'[p]
        IN  /\ pc'[p] = "returned"
            /\ (ret'[p] = Ok(s)) <=> (s \in sandboxes)
            /\ UNCHANGED <<sandboxes, thread_sandboxes, user_sandboxes, backend,
                           next_id, shutdown_called, idle_checker_stop>>
            /\ DOMAIN last_activity' = DOMAIN last_activity
            /\ s \notin sandboxes => (ret'[p] = NoRet /\ UNCHANGED last_activity)
            /\ s \in sandboxes
                  => /\ last_activity'[s] = now
                     /\ \A k \in DOMAIN last_activity \ {s} :
                            last_activity'[k] = last_activity[k]]_vars

\* a get has hit a sandbox whose timestamp was older and is now the current time
C9_Witness ==
    \E p \in Procs :
        /\ pc[p] = "returned" /\ op[p] = "get" /\ ret[p] = Ok(sid[p])
        /\ now > 0 /\ last_activity[sid[p]] = now

\* C10: when release(A) returns, normally in every case, A is in none of the
\* four maps, whatever the remote delete did; ids released earlier stay out
\* of the maps, and no later acquire or get returns one of them.
C10_ReleaseClears ==
    [][/\ \A s \in Released :
             AbsentFrom(s, sandboxes, thread_sandboxes, last_activity, user_sandboxes)
       /\ \A p \in Procs :
             /\ ReturnsNow(p, "release")
                   => /\ ret'[p] = Done
                      /\ AbsentFrom(sid'[p], sandboxes', thread_sandboxes',
                                    last_activity', user_sandboxes')
             /\ ((ReturnsNow(p, "acquire") \/ ReturnsNow(p, "get")) /\ ret'[p].kind = "ok")
                   => ret'[p].id \notin Released]_vars

\* a release has returned although the remote delete failed: the sandbox is
\* still alive at the backend and gone from the pool
C10_Witness ==
    \E p \in Procs :
        /\ pc[p] = "returned" /\ op[p] = "release"
        /\ sid[p] \in backend /\ sid[p] \notin sandboxes

\* thread p is inside the cleanup of a shutdown call
Cleaning(p) == op[p] = "shutdown" /\ pc[p] \in {"sd_stop", "sd_loop", "rel_delete"}

\* C11: shutdown is idempotent. The first call sets shutdown_called and does
\* the cleanup; every later call, made after or during the first, returns in
\* its first step with the backend and every map untouched. The flag is never
\* reset, at most one thread is ever cleaning up, and the ids that thread still
\* has to release only shrink, so shutdown releases each sandbox at most once.
C11_ShutdownIdempotent ==
    [][/\ shutdown_called => shutdown_called'
       /\ Cardinality({p \in Procs : Cleaning(p)}) <= 1
       /\ \A p \in Procs :
             /\ (pc[p] = "idle" /\ op'[p] = "shutdown")
                   => IF shutdown_called
                      THEN /\ pc'[p] = "returned" /\ ret'[p] = Done
                           /\ UNCHANGED <<pool, remote, idle_checker_stop, todo>>
                      ELSE /\ shutdown_called' /\ pc'[p] = "sd_stop"
                           /\ todo'[p] = sandboxes
                           /\ UNCHANGED <<pool, remote>>
             /\ (Cleaning(p) /\ op'[p] = "shutdown")
                   => /\ todo'[p] \subseteq todo[p]
                      /\ (pc'[p] = "rel_delete" /\ pc[p] # "rel_delete")
                            => sid'[p] \in todo[p] \ todo'[p]]_vars

\* a later shutdown call has returned while the first one is still releasing
C11_Witness ==
    \E p, q \in Procs :
        /\ p # q
        /\ op[p] = "shutdown" /\ pc[p] = "returned"
        /\ op[q] = "shutdown" /\ pc[q] = "rel_delete"

\* C12: a shutdown called while no acquire is in flight (and with none started
\* afterwards). The stop event is set before the first release of the loop;
\* every id taken off the snapshot goes through release, with the remote
\* delete attempted when the id is still registered; the call returns only
\* when the snapshot is used up, whatever the deletes did, and at that moment
\* the four maps are empty.
C12_ShutdownCleansAll ==
    [][\A p \in Procs :
          /\ (Cleaning(p) /\ pc[p] # "sd_stop") => idle_checker_stop
          /\ (op[p] = "shutdown" /\ pc[p] = "sd_stop") => sid[p] = NoId
          /\ (Cleaning(p) /\ pc[p] = "sd_loop" /\ todo'[p] # todo[p])
                => \E s \in todo[p] :
                      /\ todo'[p] = todo[p] \ {s}
                      /\ s \notin sandboxes'
                      /\ s \in sandboxes => (pc'[p] = "rel_delete" /\ sid'[p] = s)
          /\ (Cleaning(p) /\ pc'[p] = "returned")
                => /\ todo[p] = {}
                   /\ idle_checker_stop
                   /\ sandboxes' = {}
                   /\ DOMAIN thread_sandboxes' = {}
                   /\ DOMAIN last_activity' = {}
                   /\ DOMAIN user_sandboxes' = {}]_vars

\* the cleanup is about to return: two sandboxes were created, the maps are
\* empty, and one sandbox is still alive at the backend because its delete
\* failed while the other one was deleted
C12_Witness ==
    \E p \in Procs :
        /\ op[p] = "shutdown" /\ pc[p] = "sd_loop" /\ todo[p] = {}
        /\ next_id = 3 /\ Cardinality(backend) = 1
        /\ sandboxes = {} /\ idle_checker_stop

\* sandbox s was last active at t and has been idle for longer than the timeout
IdleSince(s, t) ==
    /\ s \in DOMAIN last_activity
    /\ last_activity[s] = t
    /\ now - t > idle_timeout

\* C13: with a positive idle_timeout and the idle checker running, a
\* registered sandbox that has been idle for longer than the timeout and gets
\* no acquire hit and no get is released: a sweep pass that starts takes
\* every such sandbox, ends only when each one it took is out of the pool,
\* and such a pass always comes. A released id never comes back, so every
\* later get of it returns nothing.
C13_IdleReleased ==
    /\ \A s \in 1..MaxIds, t \in 0..MaxTime :
          IdleSince(s, t)
             ~> (s \notin sandboxes \/ (s \in DOMAIN last_activity /\ last_activity[s] # t))
    /\ [][/\ (pc[Sweeper] = "sw_wait" /\ pc'[Sweeper] = "sw_loop")
               => \A s \in sandboxes, t \in 0..MaxTime :
                     IdleSince(s, t) => s \in todo'[Sweeper]
          /\ (pc[Sweeper] = "sw_loop" /\ pc'[Sweeper] = "sw_wait") => todo[Sweeper] = {}
          /\ \A s \in todo[Sweeper] \ todo'[Sweeper] : s \notin sandboxes'
          /\ \A s \in Released : s \notin sandboxes'
          /\ \A p \in Procs :
                (ReturnsNow(p, "get") /\ sid'[p] \notin sandboxes) => ret'[p] = NoRet]_vars

\* a get of a sandbox the idle checker released returns nothing
C13_Witness ==
    \E p \in Procs :
        /\ pc[p] = "returned" /\ op[p] = "get" /\ ret[p] = NoRet
        /\ sid[p] \in Released
        /\ pc[Sweeper] = "sw_wait" /\ sid[p] \notin backend
        /\ \A q \in Procs : op[q] # "release"

\* C14: a configured idle_timeout that is zero or negative disables the idle
\* sweep: no checker thread is started, so the checker never scans and never
\* releases a sandbox. (Every behaviour of SpecConfig starts from such a
\* configuration.)
C14_NonPositiveDisables ==
    /\ pc[Sweeper] = "sw_off"
    /\ todo[Sweeper] = {}

\* SpecReplicas: two replicas of the provisioner, which share nothing but the
\* cluster, serve create requests at the same time; the scheduler answers
\* every creation with created or AlreadyExists
\* the sandbox both replicas are asked for
SharedIds == {"a"}

InitReplicas == ClusterInitWith(FALSE) /\ ProviderInitWith({-1}, {MaxQuota}) /\ SideIdle

NextReplicas ==
    \/ \E r \in Replicas, x \in SharedIds : CreateCall(r, x)
    \/ \E r \in Replicas : CreatePod(r)
    \/ \E r \in Replicas : CreateService(r)
    \/ \E r \in Replicas : CreatePoll(r)
    \/ \E x \in SandboxIds : AllocatePort(x)

SpecReplicas == InitReplicas /\ [][NextReplicas]_vars

\* ---------------------------------------------------------------- sandbox handle
\* characters: ASCII ones, written as themselves, and one that takes two bytes
EACUTE == "U+00E9"
Ascii == {"E", "r", "o", ":", " ", "k", "\n", "a", "b"}
\* bytes: an ASCII byte is written as its character
ByteC3 == "0xC3"
ByteA9 == "0xA9"
ByteFF == "0xFF"

\* str.encode("utf-8")
RECURSIVE Encode(_)
Encode(text) ==
    IF text = <<>> THEN <<>>
    ELSE (IF Head(text) = EACUTE THEN <<ByteC3, ByteA9>> ELSE <<Head(text)>>)
            \o Encode(Tail(text))

\* bytes.decode("utf-8"): the text, or a UnicodeDecodeError
RECURSIVE Decode(_)
Decode(bytes) ==
    IF bytes = <<>> THEN [ok |-> TRUE, text |-> <<>>]
    ELSE IF Head(bytes) \in Ascii
         THEN LET rest == Decode(Tail(bytes))
              IN  [ok |-> rest.ok, text |-> <<Head(bytes)>> \o rest.text]
    ELSE IF Head(bytes) = ByteC3 /\ Len(bytes) >= 2 /\ bytes[2] = ByteA9
         THEN LET rest == Decode(SubSeq(bytes, 3, Len(bytes)))
              IN  [ok |-> rest.ok, text |-> <<EACUTE>> \o rest.text]
    ELSE [ok |-> FALSE, text |-> <<>>]

\* str(n) for an int
DigitChars == <<"0", "1", "2", "3", "4", "5", "6", "7", "8", "9">>
RECURSIVE Str(_)
Str(n) ==
    IF n < 0 THEN <<"-">> \o Str(-n)
    ELSE IF n < 10 THEN <<DigitChars[n + 1]>>
    ELSE Str(n \div 10) \o <<DigitChars[(n % 10) + 1]>>

\* str.startswith
StartsWith(text, prefix) ==
    Len(text) >= Len(prefix) /\ SubSeq(text, 1, Len(prefix)) = prefix

\* str.strip() and str.split("\n")
Whitespace == {" ", "\n"}
RECURSIVE LStrip(_)
LStrip(text) ==
    IF text # <<>> /\ Head(text) \in Whitespace THEN LStrip(Tail(text)) ELSE text
RECURSIVE RStrip(_)
RStrip(text) ==
    IF text # <<>> /\ text[Len(text)] \in Whitespace
    THEN RStrip(SubSeq(text, 1, Len(text) - 1)) ELSE text
Strip(text) == RStrip(LStrip(text))
RECURSIVE SplitLines(_, _)
SplitLines(text, line) ==
    IF text = <<>> THEN <<line>>
    ELSE IF Head(text) = "\n" THEN <<line>> \o SplitLines(Tail(text), <<>>)
    ELSE SplitLines(Tail(text), Append(line, Head(text)))

\* the literals of the handle's return values
ErrorColon == <<"E", "r", "r", "o", "r", ":">>
ErrorSentinel(message) == ErrorColon \o <<" ">> \o message
NoOutput == <<"(", "n", "o", " ", "o", "u", "t", "p", "u", "t", ")">>
ExitCodeSuffix(n) ==
    <<"\n", "E", "x", "i", "t", " ", "C", "o", "d", "e", ":", " ">> \o Str(n)

\* what the remote side and the callers provide
Texts == {<<>>, <<"o", "k">>, ErrorColon \o <<"k">>, <<EACUTE>>}
Listings == {<<>>, <<" ", "\n">>, <<"a", "\n", "b">>,
             <<" ", "a", " ", "\n", "\n", "b", "\n">>}
Messages == {<<>>, <<"d", "o", "w", "n">>}
ExitCodes == -1..MaxExit
Uploads == {Encode(t) : t \in Texts} \cup {<<ByteFF>>}
DecodeMessage == <<"u", "t", "f", "-", "8">>
NotFoundMessage == <<"4", "0", "4">>

\* response.result or ""
OrEmpty(has_result, result) == IF has_result THEN result ELSE <<>>

\* a method was called and has returned or raised
Called(name, append, resp, out) ==
    /\ d_op' = name
    /\ d_append' = append
    /\ d_resp' = resp
    /\ d_out' = out
Value(v) == [kind |-> "value", value |-> v]
Raised(message) == [kind |-> "raised", value |-> message]

\* execute_command's return value for a response of process.exec
CommandOutput(has_result, result, exit_code) ==
    LET output == OrEmpty(has_result, result)
                     \o (IF exit_code # 0 THEN ExitCodeSuffix(exit_code) ELSE <<>>)
    IN  IF output # <<>> THEN output ELSE NoOutput

\* execute_command: process.exec answers, or fails
ExecuteCommand ==
    /\ \/ \E has \in BOOLEAN, result \in Texts, code \in ExitCodes :
             Called("execute_command", FALSE,
                    [NoResp EXCEPT !.has_result = has, !.result = result,
                                   !.exit_code = code],
                    Value(CommandOutput(has, result, code)))
       \/ \E message \in Messages :
             Called("execute_command", FALSE,
                    [NoResp EXCEPT !.failed = TRUE, !.message = message],
                    Value(ErrorSentinel(message)))
    /\ UNCHANGED <<d_files, handle_frame>>

\* read_file's return value: fs.download_file fails (also for a missing
\* file), the bytes do not decode, or the text
ReadResult(path, fail, message) ==
    IF fail THEN [failed |-> TRUE, text |-> ErrorSentinel(message)]
    ELSE IF ~d_files[path].exists
         THEN [failed |-> TRUE, text |-> ErrorSentinel(NotFoundMessage)]
    ELSE IF ~Decode(d_files[path].data).ok
         THEN [failed |-> TRUE, text |-> ErrorSentinel(DecodeMessage)]
    ELSE [failed |-> FALSE, text |-> Decode(d_files[path].data).text]

\* variant: a failed download is raised to the caller
ReadFile_Raises(path) ==
    /\ \E fail \in BOOLEAN, message \in Messages :
          LET read == ReadResult(path, fail, message)
          IN  Called("read_file", FALSE,
                     [NoResp EXCEPT !.failed = read.failed, !.before = d_files[path]],
                     IF fail THEN Raised(message) ELSE Value(read.text))
    /\ UNCHANGED <<d_files, handle_frame>>

ReadFile(path) ==
    /\ \E fail \in BOOLEAN, message \in Messages :
          LET read == ReadResult(path, fail, message)
          IN  Called("read_file", FALSE,
                     [NoResp EXCEPT !.failed = read.failed, !.before = d_files[path]],
                     Value(read.text))
    /\ UNCHANGED <<d_files, handle_frame>>

\* list_dir's return value for a response of process.exec
Lines(output) ==
    LET parts == SplitLines(Strip(output), <<>>)
        stripped == [i \in 1..Len(parts) |-> Strip(parts[i])]
    IN  SelectSeq(stripped, LAMBDA line : line # <<>>)

\* list_dir: process.exec answers, or fails
ListDir ==
    /\ \/ \E has \in BOOLEAN, result \in Listings :
             Called("list_dir", FALSE,
                    [NoResp EXCEPT !.has_result = has, !.result = result],
                    [kind |-> "list",
                     value |-> IF OrEmpty(has, result) # <<>>
                               THEN Lines(OrEmpty(has, result)) ELSE <<>>])
       \/ \E message \in Messages :
             Called("list_dir", FALSE,
                    [NoResp EXCEPT !.failed = TRUE, !.message = message],
                    [kind |-> "list", value |-> <<>>])
    /\ UNCHANGED <<d_files, handle_frame>>

\* write_file's upload: the content, after the existing text when append is
\* set and the read did not come back as an error
Uploaded(existing, content, append) ==
    IF append /\ ~StartsWith(existing, ErrorColon) THEN existing \o content ELSE content

\* variant: a failed upload is logged and not raised
WriteFile_Swallow(path) ==
    \E content \in Texts, append, read_fail, upload_fail \in BOOLEAN,
       message \in Messages :
        LET read == ReadResult(path, read_fail, message)
            data == Encode(Uploaded(read.text, content, append))
            resp == [NoResp EXCEPT !.content = content, !.existing = read.text,
                                   !.read_failed = append /\ read.failed,
                                   !.upload_failed = upload_fail,
                                   !.message = message, !.before = d_files[path]]
        IN  /\ read_fail => append
            /\ Len(data) <= MaxText
            /\ Called("write_file", append, resp, [kind |-> "done", value |-> <<>>])
            /\ IF upload_fail THEN UNCHANGED d_files
               ELSE d_files' = [d_files EXCEPT ![path] = File(data)]
            /\ UNCHANGED handle_frame

\* write_file: the preliminary read (append only), then fs.upload_file, whose
\* failure is re-raised
WriteFile(path) ==
    \E content \in Texts, append, read_fail, upload_fail \in BOOLEAN,
       message \in Messages :
        LET read == ReadResult(path, read_fail, message)
            data == Encode(Uploaded(read.text, content, append))
            resp == [NoResp EXCEPT !.content = content, !.existing = read.text,
                                   !.read_failed = append /\ read.failed,
                                   !.upload_failed = upload_fail,
                                   !.message = message, !.before = d_files[path]]
        IN  /\ read_fail => append
            /\ Len(data) <= MaxText
            /\ IF upload_fail
               THEN /\ Called("write_file", append, resp, Raised(message))
                    /\ UNCHANGED d_files
               ELSE /\ Called("write_file", append, resp,
                              [kind |-> "done", value |-> <<>>])
                    /\ d_files' = [d_files EXCEPT ![path] = File(data)]
            /\ UNCHANGED handle_frame

\* update_file: fs.upload_file of the raw bytes, whose failure is re-raised
UpdateFile(path) ==
    \E data \in Uploads, upload_fail \in BOOLEAN, message \in Messages :
        LET resp == [NoResp EXCEPT !.content = data, !.upload_failed = upload_fail,
                                   !.message = message, !.before = d_files[path]]
        IN  /\ IF upload_fail
               THEN /\ Called("update_file", FALSE, resp, Raised(message))
                    /\ UNCHANGED d_files
               ELSE /\ Called("update_file", FALSE, resp,
                              [kind |-> "done", value |-> <<>>])
                    /\ d_files' = [d_files EXCEPT ![path] = File(data)]
            /\ UNCHANGED handle_frame

\* SpecHandle: one handle, any sequence of its methods, any remote outcome
InitHandle ==
    /\ OthersIdle("handle")
    /\ \E files \in [Paths -> {NoFile} \cup {File(b) : b \in Uploads}] :
          HandleInitWith(files)

NextHandle ==
    \/ ExecuteCommand
    \/ \E path \in Paths : ReadFile(path)
    \/ ListDir
    \/ \E path \in Paths : WriteFile(path)
    \/ \E path \in Paths : UpdateFile(path)

SpecHandle == InitHandle /\ [][NextHandle]_vars

\* ---------------------------------------------------------------- signals
\* the provider's lock is held by a thread inside one of its lock sections
LockFree == g_main # "in_lock" /\ g_other # "in_lock"

\* the main thread enters and leaves a lock section of acquire / get /
\* release; it runs only while no handler frame is on top of it
MainEnter ==
    /\ g_alive /\ g_pc = "none" /\ g_main = "outside" /\ LockFree
    /\ g_main' = "in_lock"
    /\ UNCHANGED <<g_previous, g_installed, g_pc, g_sig, g_other, g_shutdown_called,
                   g_cleaned, g_chained, g_reraised, g_delivered, g_alive,
                   signals_frame>>
MainLeave ==
    /\ g_alive /\ g_pc = "none" /\ g_main = "in_lock"
    /\ g_main' = "outside"
    /\ UNCHANGED <<g_previous, g_installed, g_pc, g_sig, g_other, g_shutdown_called,
                   g_cleaned, g_chained, g_reraised, g_delivered, g_alive,
                   signals_frame>>

\* another thread enters and leaves a lock section
OtherEnter ==
    /\ g_alive /\ g_other = "outside" /\ LockFree
    /\ g_other' = "in_lock"
    /\ UNCHANGED <<g_previous, g_installed, g_pc, g_sig, g_main, g_shutdown_called,
                   g_cleaned, g_chained, g_reraised, g_delivered, g_alive,
                   signals_frame>>
OtherLeave ==
    /\ g_alive /\ g_other = "in_lock"
    /\ g_other' = "outside"
    /\ UNCHANGED <<g_previous, g_installed, g_pc, g_sig, g_main, g_shutdown_called,
                   g_cleaned, g_chained, g_reraised, g_delivered, g_alive,
                   signals_frame>>

\* the operating system delivers a signal whose handler is the provider's:
\* the handler's frame starts on top of the main thread
Deliver(s) ==
    /\ g_alive /\ g_pc = "none" /\ g_installed[s] = "handler"
    /\ g_delivered < MaxSignals
    /\ g_delivered' = g_delivered + 1
    /\ g_pc' = "shutdown"
    /\ g_sig' = s
    /\ UNCHANGED <<g_previous, g_installed, g_main, g_other, g_shutdown_called,
                   g_cleaned, g_chained, g_reraised, g_alive, signals_frame>>

\* handler: self.shutdown(), its lock section. threading.Lock is not
\* reentrant: the section starts only when no thread, and no frame of the
\* main thread, holds the lock
HandlerShutdown ==
    /\ g_alive /\ g_pc = "shutdown" /\ LockFree
    /\ IF g_shutdown_called
       THEN g_pc' = "chain" /\ UNCHANGED g_shutdown_called
       ELSE g_pc' = "cleanup" /\ g_shutdown_called' = TRUE
    /\ UNCHANGED <<g_previous, g_installed, g_sig, g_main, g_other, g_cleaned,
                   g_chained, g_reraised, g_delivered, g_alive, signals_frame>>

\* handler: the rest of shutdown(): stop the idle checker and release every
\* sandbox, each release taking the lock for its bookkeeping
HandlerCleanup ==
    /\ g_alive /\ g_pc = "cleanup" /\ LockFree
    /\ g_cleaned' = TRUE
    /\ g_pc' = "chain"
    /\ UNCHANGED <<g_previous, g_installed, g_sig, g_main, g_other,
                   g_shutdown_called, g_chained, g_reraised, g_delivered, g_alive,
                   signals_frame>>

\* handler: chain to the handler saved at construction, then return. The
\* default action of SIGTERM and SIGINT ends the process.
HandlerChain ==
    /\ g_alive /\ g_pc = "chain"
    /\ g_pc' = "none"
    /\ IF g_previous[g_sig] = "callable"
       THEN /\ g_chained' = [g_chained EXCEPT ![g_sig] = @ + 1]
            /\ UNCHANGED <<g_installed, g_reraised, g_alive>>
       ELSE IF g_previous[g_sig] = "SIG_DFL"
            THEN /\ g_installed' = [g_installed EXCEPT ![g_sig] = "SIG_DFL"]
                 /\ g_reraised' = [g_reraised EXCEPT ![g_sig] = @ + 1]
                 /\ g_alive' = FALSE
                 /\ UNCHANGED g_chained
            ELSE UNCHANGED <<g_installed, g_chained, g_reraised, g_alive>>
    /\ UNCHANGED <<g_previous, g_sig, g_main, g_other, g_shutdown_called, g_cleaned,
                   g_delivered, signals_frame>>

\* SpecSignals: a process with a provider receives SIGTERM and SIGINT while
\* its threads use the provider. A thread leaves its lock section, and the
\* handler gets the lock when it is free again and again.
InitSignals ==
    /\ OthersIdle("signals")
    /\ \E previous \in [Signals -> Dispositions] : SignalsInitWith(previous)

NextSignals ==
    \/ MainEnter
    \/ MainLeave
    \/ OtherEnter
    \/ OtherLeave
    \/ \E s \in Signals : Deliver(s)
    \/ HandlerShutdown
    \/ HandlerCleanup
    \/ HandlerChain

SignalsFairness ==
    /\ WF_vars(OtherLeave)
    /\ SF_vars(HandlerShutdown)
    /\ SF_vars(HandlerCleanup)
    /\ WF_vars(HandlerChain)

SpecSignals == InitSignals /\ [][NextSignals]_vars /\ SignalsFairness

\* ---------------------------------------------------------------- bootstrap
\* IPv4 addresses are four octets; a CIDR block is a base address and a
\* prefix length, and contains the addresses that agree with the base on the
\* first len bits
Hi(address) == address[1] * 256 + address[2]
Lo(address) == address[3] * 256 + address[4]
Cidr(base, len) == [base |-> base, len |-> len]
InCidr(address, block) ==
    IF block.len <= 16
    THEN Hi(address) \div 2^(16 - block.len) = Hi(block.base) \div 2^(16 - block.len)
    ELSE /\ Hi(address) = Hi(block.base)
         /\ Lo(address) \div 2^(32 - block.len) = Lo(block.base) \div 2^(32 - block.len)

\* an entry of INTERNAL_CIDRS: a block, possibly padded with blanks, or
\* nothing but blanks
Entry(block) == [blank |-> FALSE, padded |-> FALSE, block |-> block]
Padded(block) == [blank |-> FALSE, padded |-> TRUE, block |-> block]
BlankEntry == [blank |-> TRUE, padded |-> FALSE, block |-> Cidr(<<0, 0, 0, 0>>, 0)]
DefaultCidrs == <<Entry(Cidr(<<10, 0, 0, 0>>, 8)), Entry(Cidr(<<172, 16, 0, 0>>, 12)),
                  Entry(Cidr(<<192, 168, 0, 0>>, 16))>>
CidrConfigs == {DefaultCidrs, <<BlankEntry>>,
                <<Padded(Cidr(<<10, 0, 0, 0>>, 8)), BlankEntry,
                  Entry(Cidr(<<192, 168, 1, 0>>, 24))>>}

\* [c.strip() for c in INTERNAL_CIDRS if c.strip()]
StrippedCidrs(cidrs) ==
    LET kept == SelectSeq(cidrs, LAMBDA c : ~c.blank)
    IN  [i \in 1..Len(kept) |-> kept[i].block]

\* the manifest of _ensure_network_policy
SANDBOX_LABEL == [key |-> "app", value |-> "deer-flow-sandbox"]
K8S_NAMESPACE == "deer-flow"
PolicyPort(port, protocol) == [port |-> port, protocol |-> protocol]
IpBlock(block, except) == [cidr |-> block, except |-> except]

\* variant: the second egress rule excludes no address range
NetworkPolicy_NoExcept(cidrs) ==
    [present |-> TRUE,
     name |-> "sandbox-isolation",
     namespace |-> K8S_NAMESPACE,
     pod_selector |-> <<SANDBOX_LABEL>>,
     policy_types |-> {"Ingress", "Egress"},
     ingress |-> <<[peers |-> <<IpBlock(Cidr(<<0, 0, 0, 0>>, 0), <<>>)>>,
                    ports |-> <<PolicyPort(8080, "TCP")>>]>>,
     egress |-> <<[peers |-> <<>>,
                   ports |-> <<PolicyPort(53, "UDP"), PolicyPort(53, "TCP")>>],
                  [peers |-> <<IpBlock(Cidr(<<0, 0, 0, 0>>, 0), <<>>)>>,
                   ports |-> <<PolicyPort(80, "TCP"), PolicyPort(443, "TCP")>>]>>]

NetworkPolicy(cidrs) ==
    [present |-> TRUE,
     name |-> "sandbox-isolation",
     namespace |-> K8S_NAMESPACE,
     pod_selector |-> <<SANDBOX_LABEL>>,
     policy_types |-> {"Ingress", "Egress"},
     ingress |-> <<[peers |-> <<IpBlock(Cidr(<<0, 0, 0, 0>>, 0), <<>>)>>,
                    ports |-> <<PolicyPort(8080, "TCP")>>]>>,
     egress |-> <<[peers |-> <<>>,
                   ports |-> <<PolicyPort(53, "UDP"), PolicyPort(53, "TCP")>>],
                  [peers |-> <<IpBlock(Cidr(<<0, 0, 0, 0>>, 0), StrippedCidrs(cidrs))>>,
                   ports |-> <<PolicyPort(80, "TCP"), PolicyPort(443, "TCP")>>]>>]

\* how the scheduler's network plugin evaluates a policy whose types are
\* Ingress and Egress: a connection of a selected Pod is permitted when one
\* rule of its direction matches it, by port and by peer (no peers: any)
PeerMatches(peers, address) ==
    \/ peers = <<>>
    \/ \E i \in 1..Len(peers) :
          /\ InCidr(address, peers[i].cidr)
          /\ \A j \in 1..Len(peers[i].except) : ~InCidr(address, peers[i].except[j])
RuleMatches(rule, conn) ==
    /\ \E i \in 1..Len(rule.ports) :
          rule.ports[i].port = conn.port /\ rule.ports[i].protocol = conn.protocol
    /\ PeerMatches(rule.peers, conn.address)
Permits(policy, conn) ==
    LET rules == IF conn.direction = "ingress" THEN policy.ingress ELSE policy.egress
    IN  \E i \in 1..Len(rules) : RuleMatches(rules[i], conn)

\* a label selector matches the Pods that carry each of its labels
Selects(selector, labels) ==
    \A i \in 1..Len(selector) :
        \E j \in 1..Len(labels) : labels[j] = selector[i]

\* the manifest of _build_pod
THREADS_HOST_PATH == "/.think-tank/threads"
SKILLS_HOST_PATH == "/skills"
PodLabels(sandbox_id, user_id) ==
    <<SANDBOX_LABEL,
      [key |-> "sandbox-id", value |-> sandbox_id],
      [key |-> "app.kubernetes.io/name", value |-> "deer-flow"],
      [key |-> "app.kubernetes.io/component", value |-> "sandbox"]>>
       \o (IF Truthy(user_id) THEN <<[key |-> "user-id", value |-> user_id]>> ELSE <<>>)
Mount(name, path, read_only) == [name |-> name, mount_path |-> path, read_only |-> read_only]
HostPath(name, path) ==
    [name |-> name, kind |-> "hostPath", path |-> path, medium |-> "", size_limit |-> ""]
EmptyDir(name, size_limit) ==
    [name |-> name, kind |-> "emptyDir", path |-> <<>>, medium |-> "Memory",
     size_limit |-> size_limit]

\* variant: the container may gain privileges
BuildPod_Escalation(sandbox_id, thread_id, user_id) ==
    [built |-> TRUE,
     name |-> PodName(sandbox_id),
     namespace |-> K8S_NAMESPACE,
     labels |-> PodLabels(sandbox_id, user_id),
     thread_id |-> thread_id,
     user_id |-> user_id,
     volume_mounts |-> <<Mount("skills", "/mnt/skills", TRUE),
                         Mount("user-data", "/mnt/user-data", FALSE),
                         Mount("tmp", "/tmp", FALSE),
                         Mount("run", "/run", FALSE)>>,
     security_context |-> [privileged |-> FALSE,
                           allow_privilege_escalation |-> TRUE,
                           read_only_root_filesystem |-> TRUE,
                           run_as_non_root |-> TRUE,
                           run_as_user |-> 1000,
                           run_as_group |-> 1000,
                           drop |-> <<"ALL">>,
                           add |-> <<"NET_BIND_SERVICE">>],
     volumes |-> <<HostPath("skills", <<SKILLS_HOST_PATH>>),
                   HostPath("user-data", <<THREADS_HOST_PATH, thread_id, "user-data">>),
                   EmptyDir("tmp", "100Mi"),
                   EmptyDir("run", "10Mi")>>]

BuildPod(sandbox_id, thread_id, user_id) ==
    [built |-> TRUE,
     name |-> PodName(sandbox_id),
     namespace |-> K8S_NAMESPACE,
     labels |-> PodLabels(sandbox_id, user_id),
     thread_id |-> thread_id,
     user_id |-> user_id,
     volume_mounts |-> <<Mount("skills", "/mnt/skills", TRUE),
                         Mount("user-data", "/mnt/user-data", FALSE),
                         Mount("tmp", "/tmp", FALSE),
                         Mount("run", "/run", FALSE)>>,
     security_context |-> [privileged |-> FALSE,
                           allow_privilege_escalation |-> FALSE,
                           read_only_root_filesystem |-> TRUE,
                           run_as_non_root |-> TRUE,
                           run_as_user |-> 1000,
                           run_as_group |-> 1000,
                           drop |-> <<"ALL">>,
                           add |-> <<"NET_BIND_SERVICE">>],
     volumes |-> <<HostPath("skills", <<SKILLS_HOST_PATH>>),
                   HostPath("user-data", <<THREADS_HOST_PATH, thread_id, "user-data">>),
                   EmptyDir("tmp", "100Mi"),
                   EmptyDir("run", "10Mi")>>]

\* lifespan: a bootstrap starts
BootstrapStart ==
    /\ n_pc \in {"idle", "done", "aborted"}
    /\ n_runs < MaxBoots
    /\ n_runs' = n_runs + 1
    /\ n_again' = (n_pc = "done")
    /\ n_before' = <<n_namespace, n_policy>>
    /\ n_pc' = "namespace"
    /\ UNCHANGED <<n_cidrs, n_namespace, n_policy, n_conn, n_verdict, n_pod,
                   bootstrap_frame>>

\* _ensure_namespace: read_namespace; on 404 create_namespace; any other
\* failure, of the read or of the creation, is raised
EnsureNamespace ==
    /\ n_pc = "namespace"
    /\ \/ /\ n_namespace
          /\ n_pc' = "policy"
          /\ UNCHANGED n_namespace
       \/ /\ ~n_namespace
          /\ n_namespace' = TRUE
          /\ n_pc' = "policy"
       \/ /\ n_pc' = "aborted"
          /\ UNCHANGED n_namespace
    /\ UNCHANGED <<n_cidrs, n_policy, n_runs, n_before, n_again, n_conn, n_verdict,
                   n_pod, bootstrap_frame>>

\* variant: a NetworkPolicy that exists is left as it is
EnsureNetworkPolicy_KeepOld ==
    /\ n_pc = "policy"
    /\ \/ /\ n_policy.present
          /\ n_pc' = "done"
          /\ UNCHANGED n_policy
       \/ /\ ~n_policy.present
          /\ n_policy' = NetworkPolicy(n_cidrs)
          /\ n_pc' = "done"
       \/ /\ n_pc' = "aborted"
          /\ UNCHANGED n_policy
    /\ UNCHANGED <<n_cidrs, n_namespace, n_runs, n_before, n_again, n_conn, n_verdict,
                   n_pod, bootstrap_frame>>

\* _ensure_network_policy: read the policy and replace it; on 404 create
\* it; any other failure is raised
EnsureNetworkPolicy ==
    /\ n_pc = "policy"
    /\ \/ /\ n_policy.present
          /\ n_policy' = NetworkPolicy(n_cidrs)
          /\ n_pc' = "done"
       \/ /\ ~n_policy.present
          /\ n_policy' = NetworkPolicy(n_cidrs)
          /\ n_pc' = "done"
       \/ /\ n_pc' = "aborted"
          /\ UNCHANGED n_policy
    /\ UNCHANGED <<n_cidrs, n_namespace, n_runs, n_before, n_again, n_conn, n_verdict,
                   n_pod, bootstrap_frame>>

\* a sandbox Pod opens or receives a connection, which the network plugin
\* checks against the installed policy
Ports8 == {22, 53, 80, 443, 8080}
Protocols == {"TCP", "UDP"}
Addresses == {<<10, 1, 2, 3>>, <<172, 16, 5, 5>>, <<172, 32, 0, 1>>,
              <<192, 168, 1, 1>>, <<192, 168, 2, 1>>, <<8, 8, 8, 8>>}
Connect ==
    /\ n_pc = "done"
    /\ \E direction \in {"ingress", "egress"}, port \in Ports8, protocol \in Protocols,
          address \in Addresses :
          LET conn == [direction |-> direction, port |-> port, protocol |-> protocol,
                       address |-> address]
          IN  /\ n_conn' = conn
              /\ n_verdict' = Permits(n_policy, conn)
    /\ n_pod' = NoPod
    /\ UNCHANGED <<n_cidrs, n_namespace, n_policy, n_pc, n_runs, n_before, n_again,
                   bootstrap_frame>>

\* create_sandbox builds the manifest it submits
UserIds == {None, "", "u1"}
SubmitPod ==
    /\ n_pc = "done"
    /\ \E sandbox_id \in SandboxIds, thread_id \in Threads, user_id \in UserIds :
          n_pod' = BuildPod(sandbox_id, thread_id, user_id)
    /\ n_conn' = NoConn
    /\ n_verdict' = FALSE
    /\ UNCHANGED <<n_cidrs, n_namespace, n_policy, n_pc, n_runs, n_before, n_again,
                   bootstrap_frame>>

\* SpecBootstrap: the provisioner starts, up to MaxBoots times, on a store
\* that holds or lacks the namespace and holds no policy, an outdated
\* policy or the current one
StalePolicy == NetworkPolicy(<<>>)
InitBootstrap ==
    /\ OthersIdle("bootstrap")
    /\ \E cidrs \in CidrConfigs, namespace \in BOOLEAN :
          \E policy \in {NoPolicy, StalePolicy, NetworkPolicy(cidrs)} :
             BootstrapInitWith(cidrs, namespace, policy)

NextBootstrap ==
    \/ BootstrapStart
    \/ EnsureNamespace
    \/ EnsureNetworkPolicy
    \/ Connect
    \/ SubmitPod

SpecBootstrap == InitBootstrap /\ [][NextBootstrap]_vars

\* ---------------------------------------------------------------- tool retry
\* A message's content is a sequence of words. The classification searches
\* the content for the words of three pattern lists, in this order.
TransientWords == {"timeout", "503", "rate limit"}
AuthWords == {"401", "forbidden"}
PersistentWords == {"not found", "404"}
Contains(content, words) == \E i \in 1..Len(content) : content[i] \in words
classify_error(content) ==
    IF Contains(content, TransientWords) THEN "transient"
    ELSE IF Contains(content, AuthWords) THEN "auth"
    ELSE IF Contains(content, PersistentWords) THEN "persistent"
    ELSE "unknown"

\* results of the handler: a ToolMessage with a str content, a ToolMessage
\* whose content is a list of blocks, or a Command
Message(content) == [kind |-> "message", content |-> content]
Blocks(content) == [kind |-> "blocks", content |-> content]
CommandResult == [kind |-> "command", content |-> <<>>]
HandlerResults ==
    {CommandResult,
     Message(<<"ok">>),
     Message(<<"timeout">>),
     Blocks(<<"Error:", "timeout">>),
     Message(<<"Error:", "timeout">>),
     Message(<<"Error:", "not found", "503">>),
     Message(<<"Error:", "401">>),
     Message(<<"Error:", "not found">>),
     Message(<<"Error:", "boom">>)}

is_error_result(result) ==
    /\ result.kind # "command"
    /\ result.kind = "message"
    /\ result.content # <<>> /\ Head(result.content) = "Error:"

NO_RETRY_TOOLS == {"ask_clarification", "think", "present_files"}
ToolNames == {"bash", "think", ""}

should_retry(tool_name, content, attempt) ==
    IF tool_name \in NO_RETRY_TOOLS THEN FALSE
    ELSE IF attempt >= r_max THEN FALSE
    ELSE classify_error(content) = "transient"

enrich_error(content, attempts) ==
    content \o <<"\n[Retried ">> \o Str(attempts)
            \o <<" time(s) - all attempts failed with transient errors]">>

\* wrap_tool_call returns
RetryReturn(value) ==
    /\ r_pc' = "returned"
    /\ r_ret' = value

\* wrap_tool_call up to the loop: the first attempt
WrapToolCall ==
    /\ r_pc \in {"idle", "returned"}
    /\ \E tool_name \in ToolNames, result \in HandlerResults :
          /\ r_tool' = tool_name
          /\ r_result' = result
          /\ r_calls' = 1
          /\ r_attempt' = 0
          /\ IF ~is_error_result(result)
             THEN RetryReturn(result)
             ELSE r_pc' = "loop" /\ r_ret' = NoResult
    /\ UNCHANGED <<r_max, retry_frame>>

\* one iteration of the retry loop, or the code after it
RetryLoop ==
    /\ r_pc = "loop"
    /\ IF r_attempt < r_max
       THEN IF ~should_retry(r_tool, r_result.content, r_attempt)
            THEN /\ RetryReturn(r_result)
                 /\ UNCHANGED <<r_attempt, r_calls, r_result>>
            ELSE \E result \in HandlerResults :
                    /\ r_result' = result
                    /\ r_calls' = r_calls + 1
                    /\ r_attempt' = r_attempt + 1
                    /\ IF ~is_error_result(result)
                       THEN RetryReturn(result)
                       ELSE UNCHANGED <<r_pc, r_ret>>
       ELSE /\ RetryReturn(Message(enrich_error(r_result.content, r_max)))
            /\ UNCHANGED <<r_attempt, r_calls, r_result>>
    /\ UNCHANGED <<r_max, r_tool, retry_frame>>

\* SpecRetry: tool calls pass through a middleware constructed with
\* max_retries in 0..MaxRetries; the handler returns any result
InitRetry ==
    /\ OthersIdle("retry")
    /\ \E max_retries \in 0..MaxRetries : RetryInitWith(max_retries)

NextRetry ==
    \/ WrapToolCall
    \/ RetryLoop

SpecRetry == InitRetry /\ [][NextRetry]_vars

\* ---------------------------------------------------------------- memory queue
\* (user_id, thread_id) pairs of the conversations
Keys == {<<"u1", "t1">>, <<"u1", "t2">>}
FlushRunner == 0                 \* the thread calling flush, as runner of a pass

\* the Timer object the next threading.Timer(...) call makes
NewTimer == Cardinality({t \in 1..MaxTimers : q_status[t] # "unused"}) + 1

\* Timer.cancel(): stops a timer that has not called its function yet
Cancel(status, t) ==
    IF t # 0 /\ status[t] = "scheduled" THEN [status EXCEPT ![t] = "cancelled"] ELSE status

\* _reset_timer, called with the lock held: cancel the Timer kept, start and
\* keep a new one
ResetTimer(status) ==
    /\ NewTimer <= MaxTimers
    /\ q_status' = [Cancel(status, q_timer) EXCEPT ![NewTimer] = "scheduled"]
    /\ q_timer' = NewTimer

\* add: drop the pending context of the same key, append the new one, reset
\* the timer
Add(k) ==
    /\ Len(q_added) < MaxAdds
    /\ q_added' = Append(q_added, k)
    /\ q_queue' = Append(SelectSeq(q_queue, LAMBDA c : c.key # k),
                         [key |-> k, add |-> Len(q_added) + 1])
    /\ ResetTimer(q_status)
    /\ UNCHANGED <<q_processing, q_passes, q_flush, q_handed, memq_frame>>

\* the debounce interval of a Timer ends: its thread goes on to call
\* _process_queue, and a cancel comes too late from now on
Expire(t) ==
    /\ q_status[t] = "scheduled"
    /\ q_status' = [q_status EXCEPT ![t] = "fired"]
    /\ UNCHANGED <<q_queue, q_timer, q_processing, q_passes, q_flush, q_added, q_handed,
                   memq_frame>>

\* first lock section of _process_queue, run by a Timer thread or by flush:
\* reschedule while a pass is running, return on an empty queue, else take
\* the whole queue; status is the Timer table once the runner's thread has
\* left the section
ProcessSection(runner, status) ==
    IF q_processing
    THEN /\ ResetTimer(status)
         /\ UNCHANGED <<q_queue, q_processing, q_passes>>
    ELSE IF q_queue = <<>>
    THEN /\ q_status' = status
         /\ UNCHANGED <<q_queue, q_timer, q_processing, q_passes>>
    ELSE /\ q_processing' = TRUE
         /\ q_passes' = q_passes \cup {[runner |-> runner, contexts |-> q_queue]}
         /\ q_queue' = <<>>
         /\ q_timer' = 0
         /\ q_status' = status

\* a Timer thread runs _process_queue
TimerProcess(t) ==
    /\ q_status[t] = "fired"
    /\ ProcessSection(t, [q_status EXCEPT ![t] = IF q_processing \/ q_queue = <<>>
                                                 THEN "done" ELSE "running"])
    /\ UNCHANGED <<q_flush, q_added, q_handed, memq_frame>>

\* the rest of a pass: every context taken goes to update_memory once, then
\* the finally block clears _processing
ProcessFinish(pass) ==
    /\ pass \in q_passes
    /\ q_handed' = [v \in 1..MaxAdds |->
                      q_handed[v] + Cardinality({i \in 1..Len(pass.contexts) :
                                                   pass.contexts[i].add = v})]
    /\ q_processing' = FALSE
    /\ q_passes' = q_passes \ {pass}
    /\ IF pass.runner = FlushRunner
       THEN q_flush' = "idle" /\ UNCHANGED q_status
       ELSE q_status' = [q_status EXCEPT ![pass.runner] = "done"] /\ UNCHANGED q_flush
    /\ UNCHANGED <<q_queue, q_timer, q_added, memq_frame>>

\* flush, first lock section: cancel and forget the Timer kept
FlushCancel ==
    /\ q_flush = "idle"
    /\ q_status' = Cancel(q_status, q_timer)
    /\ q_timer' = 0
    /\ q_flush' = "process"
    /\ UNCHANGED <<q_queue, q_processing, q_passes, q_added, q_handed, memq_frame>>

\* flush, then: _process_queue in the caller's thread
FlushProcess ==
    /\ q_flush = "process"
    /\ ProcessSection(FlushRunner, q_status)
    /\ q_flush' = IF q_processing \/ q_queue = <<>> THEN "idle" ELSE "running"
    /\ UNCHANGED <<q_added, q_handed, memq_frame>>

\* SpecQueue: threads adding contexts, a thread calling flush, and the Timer
\* threads
InitQueue == OthersIdle("memq")

NextQueue ==
    \/ \E k \in Keys : Add(k)
    \/ \E t \in 1..MaxTimers : Expire(t)
    \/ \E t \in 1..MaxTimers : TimerProcess(t)
    \/ \E pass \in q_passes : ProcessFinish(pass)
    \/ FlushCancel
    \/ FlushProcess

SpecQueue == InitQueue /\ [][NextQueue]_vars

\* ---------------------------------------------------------------- mutex
\* positions whose next statement is "with self._lock:": the start of
\* acquire (with a thread_id), get and release, acquire's quota check, and
\* acquire's registration
LockSections == {"idle", "acq_quota", "acq_register"}

\* "with self._lock:" is entered; a thread waits while another holds the lock
LockEnter(p) ==
    /\ m_lock = NoHolder
    /\ pc[p] \in LockSections
    /\ m_lock' = p
    /\ m_entry' = pc[p]
    /\ UNCHANGED mutex_frame

\* thread p is inside a with block whose body it has not run yet
Section(p) == m_lock = p /\ pc[p] = m_entry

\* the with block is left once its body has run
LockLeave(p) ==
    /\ m_lock = p
    /\ pc[p] # m_entry
    /\ m_lock' = NoHolder
    /\ m_entry' = ""
    /\ UNCHANGED mutex_frame

\* thread p is at a statement outside every with block
Outside(p) == m_lock # p

\* SpecMutex: two threads calling acquire / get / release, each lock section
\* run between LockEnter and LockLeave; max_sandboxes_per_user = 1, the idle
\* checker disabled
InitMutex == ClusterInit /\ ProviderInitWith({-1}, {1}) /\ SideIdle

NextMutex ==
    \/ \E p \in Procs : LockEnter(p)
    \/ \E p \in Procs : LockLeave(p)
    \/ \E p \in Procs, a \in FullAcquireArgs : Section(p) /\ AcquireCall(p, a[1], a[2])
    \/ \E p \in Procs : Section(p) /\ AcquireQuota(p)
    \/ \E p \in Procs : Outside(p) /\ AcquireCreate(p)
    \/ \E p \in Procs : Section(p) /\ AcquireRegister(p)
    \/ \E p \in Procs : \E s \in CallerIds : Section(p) /\ Get(p, s)
    \/ \E p \in Procs : \E s \in CallerIds : Section(p) /\ ReleaseCall(p, s)
    \/ \E p \in Procs : Outside(p) /\ ReleaseDelete(p)
    \/ \E p \in Procs : Outside(p) /\ Return(p)

SpecMutex == InitMutex /\ [][NextMutex]_vars

\* ---------------------------------------------------------------- provisioner
\* node port of sandbox x's Service in a Service map (0: none)
NodePortIn(svcs, x) == IF SvcName(x) \in DOMAIN svcs THEN svcs[SvcName(x)].node_port ELSE 0
\* this step has replica r accept a request of endpoint o for sandbox x
Accepts(r, o, x) == h_req'[r] # h_req[r] /\ h_op'[r] = o /\ h_id'[r] = x
\* the last request replica r answered was o for sandbox x
Last(r, o, x) == h_pc[r] = "returned" /\ h_op[r] = o /\ h_id[r] = x
\* this step has replica r answer the request it is handling
Answers(r) == h_pc[r] # "returned" /\ h_pc'[r] = "returned" /\ h_req'[r] = h_req[r]
TimedOut(resp) == resp.code = 500 /\ resp.detail = "NodePort was not allocated in time"

\* C15: create is idempotent. A create(X) that follows a successful create(X)
\* returns at once with the same url and creates nothing, and afterwards the
\* Pod sandbox-X and the Service sandbox-X-svc both exist.
C15_CreateIdempotent ==
    [][\A r \in Replicas, x \in SandboxIds :
          (Last(r, "create", x) /\ h_ret[r].code = 200 /\ Accepts(r, "create", x))
             => /\ h_pc'[r] = "returned"
                /\ h_ret'[r].code = 200
                /\ h_ret'[r].url = h_ret[r].url
                /\ UNCHANGED k8s
                /\ PodName(x) \in pods'
                /\ SvcName(x) \in DOMAIN services']_vars

\* C16: rollback. When this call created the Pod and the Service creation
\* fails with anything but AlreadyExists, the Pod is deleted before create
\* returns, create reports 500, and neither the Pod nor the Service remains.
C16_RollbackLeavesNothing ==
    [][\A r \in Replicas :
          (/\ h_op[r] = "create" /\ h_pc[r] \in {"c_svc", "c_rollback"}
           /\ h_made_pod[r] /\ Answers(r))
             => /\ h_ret'[r].code = 500
                /\ PodName(h_id[r]) \notin pods'
                /\ SvcName(h_id[r]) \notin DOMAIN services']_vars

\* C16 as the code has it: a failed Service creation always leads to the
\* attempt to delete the Pod, made before the response; the response is 500
\* "Service creation failed"; no Service is created or removed; the Pod is
\* gone when its deletion succeeded and stays when the deletion failed, that
\* failure being ignored.
C16_RollbackAttempted ==
    [][\A r \in Replicas :
          /\ (h_pc[r] = "c_svc" /\ h_pc'[r] # "c_svc")
                => \/ /\ h_pc'[r] = "c_poll"
                      /\ SvcName(h_id[r]) \in DOMAIN services' /\ pods' = pods
                   \/ h_pc'[r] = "c_rollback" /\ UNCHANGED <<k8s, h_ret>>
          /\ (h_pc[r] = "c_rollback" /\ h_pc'[r] # "c_rollback")
                => /\ h_pc'[r] = "returned"
                   /\ h_ret'[r].code = 500
                   /\ h_ret'[r].detail = "Service creation failed"
                   /\ services' = services
                   /\ pods' \in {pods, pods \ {PodName(h_id[r])}}]_vars

\* the Pod this call created is gone after the failed Service creation, and
\* no Service exists for the sandbox
C16_Witness ==
    \E r \in Replicas :
        /\ h_pc[r] = "returned" /\ h_op[r] = "create" /\ h_made_pod[r]
        /\ h_ret[r].code = 500 /\ h_ret[r].detail = "Service creation failed"
        /\ PodName(h_id[r]) \notin pods
        /\ SvcName(h_id[r]) \notin DOMAIN services

\* C17: when the port is not allocated within the poll budget, create stops
\* after at most POLL_BUDGET polls, reports the allocation timeout, and has
\* rolled back the Pod it created: no Pod of the sandbox remains.
C17_TimeoutRollsBack ==
    [][\A r \in Replicas :
          /\ h_polls'[r] <= POLL_BUDGET
          /\ (/\ h_op[r] = "create" /\ h_pc[r] = "c_poll"
              /\ Answers(r) /\ h_ret'[r].code # 200)
                => /\ TimedOut(h_ret'[r])
                   /\ h_made_pod[r] => PodName(h_id[r]) \notin pods']_vars

\* C18: when no poll finds a port, create reports the error only after the
\* whole poll budget is used; after that response status(X) reports
\* not-found and a successful list() does not contain X.
C18_TimeoutInvisible ==
    [][\A r \in Replicas :
          /\ (/\ h_op[r] = "create" /\ h_pc[r] = "c_poll"
              /\ Answers(r) /\ h_ret'[r].code # 200)
                => (TimedOut(h_ret'[r]) /\ h_polls'[r] = POLL_BUDGET)
          /\ \A x \in SandboxIds :
                (Last(r, "create", x) /\ TimedOut(h_ret[r]))
                   => /\ Accepts(r, "status", x) => h_ret'[r].code = 404
                      /\ (Accepts(r, "list", None) /\ h_ret'[r].code = 200)
                            => \A i \in 1..h_ret'[r].count :
                                  h_ret'[r].sandboxes[i].sandbox_id # x]_vars

\* C19: destroy always attempts both deletions, the Service's first and the
\* Pod's second, whatever the first one did. It reports success exactly when
\* no deletion failed (a deletion that finds nothing counts as done), and
\* otherwise one 500 response naming every resource whose deletion failed.
C19_DestroyBothAttempted ==
    [][\A r \in Replicas :
          /\ \A x \in SandboxIds :
                Accepts(r, "destroy", x)
                   => (h_pc'[r] = "d_svc" /\ h_errors'[r] = <<>> /\ UNCHANGED k8s)
          /\ (h_pc[r] = "d_svc" /\ h_pc'[r] # "d_svc")
                => /\ h_pc'[r] = "d_pod"
                   /\ pods' = pods
                   /\ \/ /\ SvcName(h_id[r]) \notin DOMAIN services'
                         /\ h_errors'[r] = h_errors[r]
                      \/ /\ services' = services
                         /\ h_errors'[r] = Append(h_errors[r], "service")
          /\ (h_pc[r] = "d_pod" /\ h_pc'[r] # "d_pod")
                => /\ h_pc'[r] = "returned"
                   /\ services' = services
                   /\ \/ PodName(h_id[r]) \notin pods' /\ h_errors'[r] = h_errors[r]
                      \/ pods' = pods /\ h_errors'[r] = Append(h_errors[r], "pod")
                   /\ h_ret'[r].code = 200 <=> h_errors'[r] = <<>>
                   /\ h_ret'[r].code # 200
                         => /\ h_ret'[r].code = 500
                            /\ h_ret'[r].detail = "Partial cleanup"
                            /\ h_ret'[r].errors = h_errors'[r]]_vars

\* destroy reported the failed Service deletion, and the Pod is deleted all
\* the same
C19_Witness ==
    \E r \in Replicas :
        /\ h_pc[r] = "returned" /\ h_op[r] = "destroy"
        /\ h_ret[r].code = 500 /\ h_ret[r].errors = <<"service">>
        /\ NodePortIn(services, h_id[r]) # 0
        /\ PodName(h_id[r]) \notin pods

\* number of entries of a listing that carry sandbox id x
Occurrences(items, x) == Cardinality({i \in 1..Len(items) : items[i].sandbox_id = x})

C21_ConcurrentCreate ==
    /\ \A r \in Replicas :
          (h_pc[r] = "returned" /\ h_op[r] = "create")
             => /\ h_ret[r].code = 200 \/ TimedOut(h_ret[r])
                /\ h_ret[r].code = 200
                      => /\ h_ret[r].url = SandboxUrl(GetNodePort(h_id[r]))
                         /\ GetNodePort(h_id[r]) # 0
                         /\ PodName(h_id[r]) \in pods
                         /\ SvcName(h_id[r]) \in DOMAIN services
    /\ \A r1, r2 \in Replicas :
          (/\ h_pc[r1] = "returned" /\ h_op[r1] = "create" /\ h_ret[r1].code = 200
           /\ h_pc[r2] = "returned" /\ h_op[r2] = "create" /\ h_ret[r2].code = 200
           /\ h_id[r1] = h_id[r2])
             => h_ret[r1].url = h_ret[r2].url

\* two overlapping creates of one sandbox both succeeded on the slow path: one
\* created the Pod, the other was answered already-exists for it
C21_Witness ==
    \E r1, r2 \in Replicas :
        /\ r1 # r2 /\ h_id[r1] = h_id[r2]
        /\ h_pc[r1] = "returned" /\ h_op[r1] = "create" /\ h_ret[r1].code = 200
        /\ h_pc[r2] = "returned" /\ h_op[r2] = "create" /\ h_ret[r2].code = 200
        /\ h_made_pod[r1] /\ h_polls[r1] > 0
        /\ ~h_made_pod[r2] /\ h_polls[r2] > 0

\* ---------------------------------------------------------------- sandbox handle
\* C22: the read-style methods never raise. When the remote call or the
\* decoding fails, execute_command and read_file return a text that starts
\* with "Error: " and list_dir returns the empty list. When process.exec
\* answers, execute_command returns the captured output followed by
\* "\nExit Code: N" for a non-zero exit code N, and "(no output)" when that
\* text is empty.
C22_ReadStyleNeverRaises ==
    /\ d_op \in {"execute_command", "read_file", "list_dir"} => d_out.kind # "raised"
    /\ (d_op \in {"execute_command", "read_file"} /\ d_resp.failed)
          => d_out.kind = "value" /\ StartsWith(d_out.value, ErrorColon \o <<" ">>)
    /\ (d_op = "list_dir" /\ d_resp.failed) => (d_out.kind = "list" /\ d_out.value = <<>>)
    /\ (d_op = "execute_command" /\ ~d_resp.failed)
          => LET captured == IF d_resp.has_result THEN d_resp.result ELSE <<>>
                 code == d_resp.exit_code
             IN  /\ d_out.kind = "value"
                 /\ code # 0 => d_out.value = captured \o ExitCodeSuffix(code)
                 /\ (code = 0 /\ captured # <<>>) => d_out.value = captured
                 /\ (code = 0 /\ captured = <<>>) => d_out.value = NoOutput

\* read_file was called on a file whose bytes are not UTF-8 and returned the
\* error text
C22_Witness ==
    /\ d_op = "read_file" /\ d_resp.failed
    /\ d_resp.before = File(<<ByteFF>>)
    /\ d_out = Value(ErrorSentinel(DecodeMessage))

\* C23: write_file and update_file raise exactly when the upload fails, and
\* then the remote file is as it was. A write_file with append set whose
\* preliminary read failed does not raise for that: it uploads the new
\* content alone.
C23_WriteStyleRaises ==
    \A path \in Paths :
        /\ d_op \in {"write_file", "update_file"}
              => /\ d_out.kind \in {"raised", "done"}
                 /\ d_out.kind = "raised" <=> d_resp.upload_failed
                 /\ d_resp.upload_failed => d_files[path] = d_resp.before
        /\ (d_op = "write_file" /\ d_append /\ d_resp.read_failed /\ ~d_resp.upload_failed)
              => /\ d_out.kind = "done"
                 /\ d_files[path] = File(Encode(d_resp.content))

\* an appending write_file could not read the file (its bytes do not decode)
\* and uploaded the new content alone
C23_Witness ==
    \E path \in Paths :
        /\ d_op = "write_file" /\ d_append /\ d_resp.read_failed
        /\ d_resp.before = File(<<ByteFF>>)
        /\ d_resp.content # <<>>
        /\ d_out.kind = "done"
        /\ d_files[path] = File(Encode(d_resp.content))

\* ---------------------------------------------------------------- signals
\* C24: on SIGTERM or SIGINT the handler runs shutdown() to its end and then
\* chains once to the handler saved at construction: each delivered signal
\* leads to the end of the handler's frame or of the process, the chaining
\* step comes after shutdown() and either calls the previous callable once
\* for that signal or restores the default and re-raises the signal.
C24_ShutdownThenChain ==
    /\ [][(g_pc # "none" /\ g_pc' = "none")
             => /\ g_pc = "chain" /\ g_shutdown_called
                /\ g_previous[g_sig] = "callable"
                      => g_chained'[g_sig] = g_chained[g_sig] + 1
                /\ g_previous[g_sig] = "SIG_DFL"
                      => /\ g_installed'[g_sig] = "SIG_DFL"
                         /\ g_reraised'[g_sig] = g_reraised[g_sig] + 1
                         /\ ~g_alive']_vars
    /\ (g_pc # "none") ~> (g_pc = "none" \/ ~g_alive)

\* ---------------------------------------------------------------- bootstrap
\* the address lies in one of the configured internal ranges
Internal(address) ==
    \E i \in 1..Len(n_cidrs) : ~n_cidrs[i].blank /\ InCidr(address, n_cidrs[i].block)

VolumeOf(pod, mount) ==
    CHOOSE v \in {pod.volumes[i] : i \in 1..Len(pod.volumes)} : v.name = mount.name
MountAt(pod, path) ==
    CHOOSE m \in {pod.volume_mounts[i] : i \in 1..Len(pod.volume_mounts)} :
        m.mount_path = path
HasMount(pod, path) ==
    \E i \in 1..Len(pod.volume_mounts) : pod.volume_mounts[i].mount_path = path
MemoryBacked(pod, path, size) ==
    /\ HasMount(pod, path)
    /\ ~MountAt(pod, path).read_only
    /\ VolumeOf(pod, MountAt(pod, path)).kind = "emptyDir"
    /\ VolumeOf(pod, MountAt(pod, path)).medium = "Memory"
    /\ VolumeOf(pod, MountAt(pod, path)).size_limit = size

\* C26: every Pod manifest built for a create is hardened: not privileged,
\* user and group 1000 and not root, no privilege escalation, read-only root
\* file system, all capabilities dropped and NET_BIND_SERVICE alone added,
\* /tmp (100Mi) and /run (10Mi) writable and memory-backed, the skills mount
\* read-only, the user-data mount writable and on the host path of the
\* thread; the user-id label is there exactly when a user id was given.
C26_PodHardened ==
    n_pod.built =>
        /\ ~n_pod.security_context.privileged
        /\ n_pod.security_context.run_as_non_root
        /\ n_pod.security_context.run_as_user = 1000
        /\ n_pod.security_context.run_as_group = 1000
        /\ ~n_pod.security_context.allow_privilege_escalation
        /\ n_pod.security_context.read_only_root_filesystem
        /\ n_pod.security_context.drop = <<"ALL">>
        /\ n_pod.security_context.add = <<"NET_BIND_SERVICE">>
        /\ MemoryBacked(n_pod, "/tmp", "100Mi")
        /\ MemoryBacked(n_pod, "/run", "10Mi")
        /\ HasMount(n_pod, "/mnt/skills")
        /\ MountAt(n_pod, "/mnt/skills").read_only
        /\ VolumeOf(n_pod, MountAt(n_pod, "/mnt/skills")).kind = "hostPath"
        /\ HasMount(n_pod, "/mnt/user-data")
        /\ ~MountAt(n_pod, "/mnt/user-data").read_only
        /\ VolumeOf(n_pod, MountAt(n_pod, "/mnt/user-data")).kind = "hostPath"
        /\ VolumeOf(n_pod, MountAt(n_pod, "/mnt/user-data")).path
              = <<THREADS_HOST_PATH, n_pod.thread_id, "user-data">>
        /\ (\E i \in 1..Len(n_pod.labels) : n_pod.labels[i].key = "user-id")
              <=> n_pod.user_id \notin {None, ""}
        /\ \A i \in 1..Len(n_pod.labels) :
              n_pod.labels[i].key = "user-id" => n_pod.labels[i].value = n_pod.user_id

\* a manifest was built for a request with a user id and carries its label
C26_Witness ==
    /\ n_pod.built
    /\ n_pod.user_id = "u1"
    /\ n_pod.thread_id = "t2"
    /\ \E i \in 1..Len(n_pod.labels) :
          n_pod.labels[i] = [key |-> "user-id", value |-> "u1"]

\* C27: bootstrap converges and is idempotent. The namespace is created only
\* by the step that found it missing; the policy is only ever set to the
\* current manifest; a bootstrap that completes leaves the namespace and the
\* current policy in place; one that aborts on a scheduler error changes
\* nothing in its failing step; and a bootstrap that follows a completed
\* one leaves the store as it found it.
C27_BootstrapConverges ==
    [][/\ n_namespace' # n_namespace
             => (n_pc = "namespace" /\ ~n_namespace /\ n_namespace')
       /\ n_policy' # n_policy
             => (n_pc = "policy" /\ n_policy' = NetworkPolicy(n_cidrs))
       /\ (n_pc # "done" /\ n_pc' = "done")
             => /\ n_namespace'
                /\ n_policy' = NetworkPolicy(n_cidrs)
                /\ n_again => <<n_namespace', n_policy'>> = n_before
       /\ (n_pc # "aborted" /\ n_pc' = "aborted")
             => UNCHANGED <<n_namespace, n_policy>>]_vars

\* a second bootstrap has completed on the store the first one left
C27_Witness ==
    /\ n_pc = "done" /\ n_again /\ n_runs = 2
    /\ n_before = <<TRUE, NetworkPolicy(n_cidrs)>>
    /\ n_namespace /\ n_policy = NetworkPolicy(n_cidrs)
    /\ Len(StrippedCidrs(n_cidrs)) = 2

\* ---------------------------------------------------------------- tool retry
\* C28: wrap_tool_call invokes the handler at most 1 + max_retries times. It
\* invokes it again only after an "Error:" message classified transient, for
\* a tool outside NO_RETRY_TOOLS. It returns a result that is not an error
\* (a Command included) unchanged, returns an error that is not transient
\* unchanged, and returns the last error enriched with max_retries when all
\* 1 + max_retries attempts failed with transient errors.
C28_RetryContract ==
    [][/\ r_calls' <= 1 + r_max
       /\ (r_pc = "loop" /\ r_calls' = r_calls + 1)
             => /\ is_error_result(r_result)
                /\ classify_error(r_result.content) = "transient"
                /\ r_tool \notin NO_RETRY_TOOLS
       /\ (r_pc' = "returned" /\ (r_pc # "returned" \/ r_ret' # r_ret \/ r_result' # r_result))
             => /\ ~is_error_result(r_result') => r_ret' = r_result'
                /\ (/\ is_error_result(r_result')
                    /\ classify_error(r_result'.content) # "transient")
                      => r_ret' = r_result'
                /\ (/\ is_error_result(r_result')
                    /\ classify_error(r_result'.content) = "transient"
                    /\ r_calls' = 1 + r_max
                    /\ r_tool' \notin NO_RETRY_TOOLS)
                      => r_ret' = Message(enrich_error(r_result'.content, r_max))]_vars

\* C30: a sandbox whose backend create completed after shutdown began (its id
\* is at least shutdown_next_id) and that was registered before shutdown's
\* release pass finished has been released by that pass: at the step that
\* ends the pass, no such sandbox is registered.
C30_LateCreateSwept ==
    [][\A p \in Procs :
          (op[p] = "shutdown" /\ pc[p] = "sd_loop" /\ pc'[p] = "returned")
             => \A i \in sandboxes' : i < shutdown_next_id]_vars

\* ---------------------------------------------------------------- mutex
\* thread p is blocked in the remote create: the call is issued, not answered
InRemoteCreate(p) == pc[p] = "acq_create" /\ Outside(p)
\* the next step of thread q's bookkeeping: take the lock, run a section, leave
Bookkeeping(q) ==
    \/ LockEnter(q)
    \/ LockLeave(q)
    \/ /\ Section(q)
       /\ \/ \E a \in FullAcquireArgs : AcquireCall(q, a[1], a[2])
          \/ AcquireQuota(q)
          \/ AcquireRegister(q)
          \/ \E s \in CallerIds : Get(q, s)
          \/ \E s \in CallerIds : ReleaseCall(q, s)

\* C29: no step holds the mutex across a backend call: a step that changes
\* what exists at the backend (a create or a delete) is taken by a thread that
\* does not hold the lock, and so is a failing create or delete. While one
\* thread is blocked in the remote create, every other thread that is at a
\* lock section or inside one can take its next bookkeeping step: the lock is
\* free or held by a thread that is about to leave it.
C29_LockNotHeldAcrossRemote ==
    /\ [](\A p \in Procs : InRemoteCreate(p) =>
             \A q \in Procs \ {p} :
                 (pc[q] \in LockSections \/ m_lock = q) => ENABLED Bookkeeping(q))
    /\ [][\A p \in Procs :
             (/\ pc'[p] # pc[p]
              /\ \/ backend' # backend
                 \/ next_id' # next_id
                 \/ pc[p] \in {"acq_create", "rel_delete"})
                => m_lock # p /\ UNCHANGED pool]_vars
\* thread 1 is blocked in the remote create for ("t1", "u1"), having passed
\* the fast path and the quota check, and thread 2 has since registered a
\* sandbox for the same thread id and user and returned: thread 2's lock
\* sections ran to completion while thread 1 was in its acquire
C29_Witness ==
    /\ InRemoteCreate(1) /\ a_thread[1] = "t1" /\ a_user[1] = "u1"
    /\ m_lock = NoHolder
    /\ pc[2] = "returned" /\ op[2] = "acquire" /\ ret[2].kind = "ok"
    /\ "t1" \in DOMAIN thread_sandboxes
    /\ thread_sandboxes["t1"] = ret[2].id
    /\ ret[2].id \in sandboxes
    /\ QuotaCount("u1") = max_per_user

\* ---------------------------------------------------------------- pool maps
\* this step has thread p register the sandbox it created
Registers(p) == pc[p] = "acq_register" /\ pc'[p] = "returned"

\* C31: the keys of last_activity are the registered sandboxes, in every
\* state. An entry appears only in the step in which acquire registers that
\* sandbox, and that step stamps it with the current time; a reuse hit or a
\* get changes the timestamp of a registered sandbox and adds no key; an
\* entry disappears only in the step that removes its sandbox.
C31_ActivityTracksLive ==
    /\ [](DOMAIN last_activity = sandboxes)
    /\ [][/\ \A s \in DOMAIN last_activity' \ DOMAIN last_activity :
                \E p \in Procs : Registers(p) /\ sid[p] = s /\ s \in sandboxes' \ sandboxes
          /\ \A p \in Procs :
                Registers(p) => /\ sid[p] \in DOMAIN last_activity'
                                /\ last_activity'[sid[p]] = now
          /\ \A s \in DOMAIN last_activity \ DOMAIN last_activity' :
                s \in sandboxes \ sandboxes'
          /\ \A p \in Procs :
                (pc[p] = "idle" /\ pc'[p] = "returned" /\ op'[p] \in {"get", "acquire"})
                   => DOMAIN last_activity' = DOMAIN last_activity]_vars
\* a get refreshed the timestamp of a registered sandbox after the clock moved,
\* and an earlier sandbox has been released
C31_Witness ==
    /\ pc[1] = "returned" /\ op[1] = "get" /\ ret[1].kind = "ok"
    /\ ret[1].id \in sandboxes
    /\ now > 0 /\ last_activity[ret[1].id] = now
    /\ Cardinality(sandboxes) < next_id - 1
    /\ pc[2] = "idle"

\* ---------------------------------------------------------------- idle checker
\* this step is a remote delete of the idle checker that fails
SweepDeleteFails ==
    /\ pc[Sweeper] = "rel_delete" /\ pc'[Sweeper] # "rel_delete"
    /\ sid[Sweeper] \in backend'

\* C32: a remote delete that fails during a sweep pass takes the checker back
\* to its loop with the rest of the pass untouched, and every sandbox a pass
\* has taken is removed from the pool before the pass ends. While the stop
\* event is not set a waiting checker goes on to another pass; once it is set
\* a waiting checker starts no pass, and the checker terminates.
C32_SweepSurvivesAndStops ==
    /\ [][/\ SweepDeleteFails
               => pc'[Sweeper] = "sw_loop" /\ todo'[Sweeper] = todo[Sweeper]
          /\ \A s \in todo[Sweeper] \ todo'[Sweeper] : s \notin sandboxes'
          /\ (pc[Sweeper] = "sw_loop" /\ pc'[Sweeper] = "sw_wait") => todo[Sweeper] = {}
          /\ (idle_checker_stop /\ pc[Sweeper] = "sw_wait")
               => pc'[Sweeper] \in {"sw_wait", "sw_exit"}
          /\ pc[Sweeper] = "sw_exit" => pc'[Sweeper] = "sw_exit"]_vars
    /\ \A s \in 1..MaxIds : (s \in todo[Sweeper]) ~> (s \notin todo[Sweeper])
    /\ (pc[Sweeper] = "sw_wait" /\ ~idle_checker_stop)
          ~> (pc[Sweeper] = "sw_loop" \/ idle_checker_stop)
    /\ idle_checker_stop ~> (pc[Sweeper] = "sw_exit")
\* the checker's delete of one sandbox has failed (the sandbox is out of the
\* pool and alive at the backend; no caller releases and shutdown has not
\* been called), and the checker is now deleting the other sandbox
C32_Witness ==
    \E s \in 1..MaxIds :
        /\ ~shutdown_called
        /\ pc[Sweeper] = "rel_delete" /\ sid[Sweeper] # s
        /\ s \in backend /\ s \notin sandboxes /\ s < next_id
        /\ s \notin {sid[p] : p \in Procs}

\* C33: every id in a user's set is a registered sandbox, no id is in the sets
\* of two users, and no user is mapped to the empty set (so the release of a
\* user's last sandbox removes the user's entry).
C33_UserSetsLive ==
    /\ \A u \in DOMAIN user_sandboxes :
          user_sandboxes[u] # {} /\ user_sandboxes[u] \subseteq sandboxes
    /\ \A u \in DOMAIN user_sandboxes, v \in DOMAIN user_sandboxes :
          u # v => user_sandboxes[u] \cap user_sandboxes[v] = {}
\* sandbox 1 was registered for a user and has been released and deleted; the
\* only entry left is the other sandbox's user
C33_Witness ==
    /\ pc[1] = "returned" /\ op[1] = "release" /\ sid[1] = 1
    /\ 1 \notin backend /\ 1 \notin sandboxes
    /\ DOMAIN user_sandboxes = {"u2"} /\ user_sandboxes["u2"] = {2}
    /\ sandboxes = {2}

\* C34: whenever the idle checker removes a sandbox from the pool, that
\* sandbox is idle at that moment: the time since its last activity exceeds
\* idle_timeout in the state in which the removal happens.
C34_EvictsOnlyIdle ==
    [][\A s \in todo[Sweeper] \ todo'[Sweeper] :
          (pc[Sweeper] = "sw_loop" /\ s \in sandboxes /\ s \notin sandboxes')
             => now - last_activity[s] > idle_timeout]_vars

\* C35: the backend delete is invoked at most once for a registered sandbox:
\* a thread (a caller in release, shutdown or the idle checker) goes to the
\* remote delete of an id only in the step in which it removes that id from
\* the pool, an id that has left the pool is never registered again, and no
\* two threads are ever at the remote delete of the same id. A release of an id that is not registered returns from its
\* lock section and makes no backend call.
C35_DeleteAtMostOnce ==
    /\ [](\A a \in Agents, b \in Agents :
             (a # b /\ pc[a] = "rel_delete" /\ pc[b] = "rel_delete") => sid[a] # sid[b])
    /\ [](\A a \in Agents : pc[a] = "rel_delete" => sid[a] \notin sandboxes)
    /\ [][/\ \A a \in Agents :
                (pc[a] # "rel_delete" /\ pc'[a] = "rel_delete")
                   => sid'[a] \in sandboxes \ sandboxes'
          /\ \A s \in sandboxes' \ sandboxes :
                s \notin Released /\ \E p \in Procs : Registers(p) /\ sid[p] = s
          /\ \A p \in Procs, s \in CallerIds :
                (pc[p] = "idle" /\ pc'[p] # "idle" /\ op'[p] = "release"
                 /\ sid'[p] = s /\ s \notin sandboxes)
                   => pc'[p] = "returned" /\ backend' = backend
          /\ \A s \in backend \ backend' :
                \E a \in Agents : pc[a] = "rel_delete" /\ sid[a] = s]_vars
\* two threads release sandbox 1 at the same time: thread 1 removed it from
\* the pool and is at the remote delete, thread 2 found nothing and returned
\* without a backend call
C35_Witness ==
    /\ pc[1] = "rel_delete" /\ sid[1] = 1 /\ op[1] = "release"
    /\ pc[2] = "returned" /\ op[2] = "release" /\ sid[2] = 1
    /\ 1 \in backend

\* ---------------------------------------------------------------- after shutdown
\* the first shutdown() call has returned
ShutdownReturned ==
    /\ shutdown_called
    /\ \A q \in Procs : op[q] = "shutdown" => pc[q] = "returned"

\* C36: from a state in which shutdown() has returned, the pool is empty and
\* no acquire is in flight, the pool stays empty for ever: an acquire issued
\* later registers nothing.
C36_EmptyAfterShutdown ==
    [](ShutdownReturned /\ ~AcquireInFlight /\ sandboxes = {} => [](sandboxes = {}))

\* ---------------------------------------------------------------- create
\* this step has replica r answer a create request with success
CreateSucceeds(r) ==
    /\ h_pc'[r] = "returned" /\ h_op'[r] = "create" /\ h_ret'[r].code = 200
    /\ h_pc[r] # "returned" \/ h_req'[r] # h_req[r]

\* C37: whenever create(X) answers with success, the Pod sandbox-X and the
\* Service sandbox-X-svc both exist at that moment.
C37_SuccessMeansBoth ==
    [][\A r \in Replicas :
          CreateSucceeds(r) => /\ PodName(h_id'[r]) \in pods'
                               /\ SvcName(h_id'[r]) \in DOMAIN services']_vars

\* C38: the rollback of create deletes only a Pod that the same create call
\* created: when create_namespaced_pod answered AlreadyExists and the Service
\* creation then fails, the step that handles the failure leaves the Pods as
\* they are.
C38_RollbackOwnPodOnly ==
    [][\A r \in Replicas :
          (h_pc[r] = "c_rollback" /\ h_pc'[r] # "c_rollback" /\ ~h_made_pod[r])
             => pods' = pods]_vars

\* ---------------------------------------------------------------- append
\* C39: after write_file(path, content, append=True) has returned normally on
\* a file that existed and could be read, the file holds the previous text
\* followed by the new content.
C39_AppendKeepsContent ==
    \A path \in Paths :
        (/\ d_op = "write_file" /\ d_append /\ d_out.kind = "done"
         /\ d_resp.before.exists /\ ~d_resp.read_failed)
           => /\ Decode(d_files[path].data).ok
              /\ Decode(d_files[path].data).text
                    = Decode(d_resp.before.data).text \o d_resp.content

\* ---------------------------------------------------------------- memory queue
\* the most recent add for key k (0: none)
LastAdd(k) ==
    LET adds == {i \in 1..Len(q_added) : q_added[i] = k}
    IN  IF adds = {} THEN 0 ELSE CHOOSE i \in adds : \A j \in adds : j <= i
\* the Timer objects whose debounce interval is running
Scheduled(status) == {t \in 1..MaxTimers : status[t] = "scheduled"}

\* C40: the pending queue holds at most one context per (user_id, thread_id),
\* the one of the most recent add for that key; every add restarts the single
\* debounce timer: after an add exactly one interval is running, that of a
\* Timer the add started, and never two; a processing pass takes the whole
\* queue and leaves it empty; no context reaches the updater twice, a finished
\* pass has handed over each of its contexts once; and at most one pass runs
\* at a time.
C40_QueueDebounce ==
    /\ [](\A i \in 1..Len(q_queue), j \in 1..Len(q_queue) :
             i # j => q_queue[i].key # q_queue[j].key)
    /\ [](\A i \in 1..Len(q_queue) : q_queue[i].add = LastAdd(q_queue[i].key))
    /\ [](Cardinality(q_passes) <= 1)
    /\ [](\A v \in 1..MaxAdds : q_handed[v] <= 1)
    /\ [](Cardinality(Scheduled(q_status)) <= 1)
    /\ [][/\ Len(q_added') > Len(q_added)
               => /\ Scheduled(q_status') = {q_timer'}
                  /\ q_status[q_timer'] = "unused"
          /\ \A pass \in q_passes' \ q_passes :
                pass.contexts = q_queue /\ q_queue' = <<>>
          /\ \A pass \in q_passes \ q_passes' :
                \A i \in 1..Len(pass.contexts) :
                    q_handed'[pass.contexts[i].add] = 1]_vars
====
